---------------------------- MODULE Spec2Model ----------------------------
(***************************************************************************)
(* A model of the control core of the xiaozhi-esp32 voice device:          *)
(*   - Ota  (src/main/ota.cc): version comparison, CheckVersion, Upgrade   *)
(*   - Application (src/main/application.cc): the device state machine,    *)
(*     the Schedule()/MainLoop() dispatcher, the decode queue, the         *)
(*     background decode jobs and the version-check task                   *)
(*   - WebsocketProtocol (src/main/protocols/websocket_protocol.cc): the   *)
(*     hello handshake of OpenAudioChannel()                               *)
(* Every scenario below (SpecBoot, Spec, SpecSched, SpecCheck, SpecOta,     *)
(* SpecWs, SpecVersion) runs a subset of the same actions over the same    *)
(* variables.                                                              *)
(* Threads: "main" is MainLoop(), "vc" is the check_new_version task,      *)
(* "user" is the thread of the button callbacks; the transport's receive   *)
(* thread, the codec interrupt and the background worker have their own    *)
(* actions.                                                                *)
(***************************************************************************)
EXTENDS Integers, Sequences, FiniteSets, TLC

VARIABLES
    \* ---- Ota (ota.cc)
    current_version_,     \* std::string, as a sequence of characters
    firmware_version_,    \* std::string from the manifest
    has_new_version_,     \* bool
    has_activation_code_, \* bool
    image_marked_valid,   \* MarkCurrentVersionValid() ran in this boot
    \* ---- Ota::Upgrade and the tail of the upgrade task
    up_pc,                \* position in StartUpgrade/Upgrade/the task's tail
    image_same_version,   \* the image header carries the running version
    content_length,       \* http->GetBodyLength()
    http_remaining,       \* bytes of the body not read yet
    total_read,           \* size_t total_read
    image_header_size,    \* image_header.size()
    image_header_checked, \* bool
    update_handle,        \* esp_ota_handle_t, 0 until esp_ota_begin gives one
    ota_begin_called,     \* esp_ota_begin was called
    ota_write_called,     \* esp_ota_write was called (with any handle)
    ota_written,          \* bytes esp_ota_write accepted
    ota_end_ok,           \* esp_ota_end returned ESP_OK
    ota_progress,         \* last percentage given to the upgrade callback
    boot_partition,       \* "running" or "update": what the next boot starts
    rebooted,             \* esp_restart() was called
    \* ---- WebsocketProtocol (websocket_protocol.cc)
    websocket_,           \* "null", or the state of the WebSocket object
    error_occurred_,      \* bool (Protocol)
    hello_event,          \* WEBSOCKET_PROTOCOL_SERVER_HELLO_EVENT bit
    server_sample_rate_,  \* int
    oac_pc,               \* position of the thread inside OpenAudioChannel
    oac_result,           \* what the last OpenAudioChannel call returned
    opened_fired,         \* on_audio_channel_opened_ ran in the last call
    ws_hello_sent,        \* the client hello went out on this connection
    ws_server_replied,    \* the server has answered on this connection
    ws_valid_hello,       \* a matching server hello arrived on this
                          \* connection after the client hello
    closed_fired,         \* on_audio_channel_closed_ ran for this connection
    \* ---- Application (application.cc)
    device_state_,        \* DeviceState
    clock_ticks_,         \* int
    keep_listening_,      \* bool
    aborted_,             \* bool
    audio_decode_queue_,  \* std::list of Opus frames, by origin
    main_tasks_,          \* std::list of scheduled closures
    event_group_,         \* the bits set in event_group_
    opus_decode_sample_rate_, \* int
    opus_decoder_,        \* "fresh" after a reset or rebuild, else "used"
    last_iot_states_,     \* std::string
    \* ---- the board: codec, display, LED, audio front end, power saving
    audio_processor_running, \* audio_processor_.IsRunning()
    output_enabled,       \* codec->EnableOutput
    pcm_written,          \* origin of the last frame given to OutputData
    power_save_mode,      \* board.SetPowerSaveMode
    display_status,       \* Display::SetStatus
    display_emotion,      \* Display::SetEmotion
    display_message,      \* Display::SetChatMessage
    display_notification, \* Display::ShowNotification
    led_state,            \* the device state the LED last showed
    \* ---- MainLoop()
    ml_pc,                \* "wait", "output", "sched" or "run"
    ml_bits,              \* the local bits
    ml_tasks,             \* the local list tasks, what is left of it
    ml_task,              \* the task being run and the position in it
    \* ---- calls in progress, per thread
    sds,                  \* SetDeviceState: position, argument, previous_state
    snd,                  \* PlaySound: position
    \* ---- BackgroundTask
    bg_queue,             \* jobs not started yet
    bg_pc,                \* "idle", or the position in the running job
    bg_job,               \* the frame of the running job
    bg_alive,             \* background_task_ is not deleted
    \* ---- CheckNewVersion()
    vc_pc,                \* position of the version-check task
    retry_count,          \* int retry_count
    vc_i,                 \* int i of the activation wait loop
    vc_digits,            \* digits of the activation code not yet played
    consecutive_failures, \* failed polls since the last successful one
    \* ---- bookkeeping of the dispatcher scenario
    next_id,              \* tasks handed to Schedule() so far
    last_run,             \* number of the task that ran last
    sched_notify,         \* threads between push_back and xEventGroupSetBits
    \* ---- the environment
    env_events,           \* button presses and tts messages so far
    \* ---- the conversation calls
    last_sent,            \* last text message sent over websocket_
    wwi_pc,               \* position of the thread inside WakeWordInvoke
    protocol_,            \* protocol_ != nullptr
    thing_invoked,        \* thread on which ThingManager::Invoke last ran
    timed_out,            \* last_incoming_time_ is older than the idle timeout
    frames_encoded,       \* frames the background task has encoded so far
    frames_sent           \* numbers of the frames handed to websocket_->Send

otaVars == <<current_version_, firmware_version_, has_new_version_,
             has_activation_code_, image_marked_valid>>

upVars == <<up_pc, image_same_version, content_length, http_remaining,
            total_read, image_header_size, image_header_checked,
            update_handle, ota_begin_called, ota_write_called, ota_written,
            ota_end_ok, ota_progress, boot_partition, rebooted>>

wsVars == <<websocket_, error_occurred_, hello_event, server_sample_rate_,
            oac_pc, oac_result, opened_fired, ws_hello_sent,
            ws_server_replied, ws_valid_hello, closed_fired>>

appVars == <<device_state_, clock_ticks_, keep_listening_, aborted_,
             audio_decode_queue_, main_tasks_, event_group_,
             opus_decode_sample_rate_, opus_decoder_, last_iot_states_>>

boardVars == <<audio_processor_running, output_enabled, pcm_written,
               power_save_mode, display_status, display_emotion,
               display_message, display_notification, led_state>>

mlVars == <<ml_pc, ml_bits, ml_tasks, ml_task>>

callVars == <<sds, snd>>

bgVars == <<bg_queue, bg_pc, bg_job, bg_alive>>

vcVars == <<vc_pc, retry_count, vc_i, vc_digits, consecutive_failures>>

schedVars == <<next_id, last_run, sched_notify>>

envVars == <<env_events>>

talkVars == <<last_sent, wwi_pc, protocol_, thing_invoked, timed_out,
             frames_encoded, frames_sent>>

vars == <<otaVars, upVars, wsVars, appVars, boardVars, mlVars, callVars,
          bgVars, vcVars, schedVars, envVars, talkVars>>

-----------------------------------------------------------------------------
(* Strings are sequences of one-character strings.                         *)

Digits == <<"0", "1", "2", "3", "4", "5", "6", "7", "8", "9">>

IsDigit(c) == \E i \in 1..10 : Digits[i] = c

DigitVal(c) == (CHOOSE i \in 1..10 : Digits[i] = c) - 1

\* The decimal text of a natural number (what a version string is made of).
RECURSIVE ToDecimal(_)
ToDecimal(n) ==
    IF n < 10 THEN <<Digits[n + 1]>>
    ELSE ToDecimal(n \div 10) \o <<Digits[(n % 10) + 1]>>

\* "a.b.c" for the tuple <<a, b, c>>.
RECURSIVE FormatVersion(_)
FormatVersion(t) ==
    IF Len(t) = 0 THEN <<>>
    ELSE IF Len(t) = 1 THEN ToDecimal(t[1])
    ELSE ToDecimal(t[1]) \o <<".">> \o FormatVersion(Tail(t))

\* std::stoi on a segment that starts with a digit: the value of its
\* leading run of digits (a segment with no leading digit throws, and no
\* such version string is drawn below).
RECURSIVE StoiFrom(_, _)
StoiFrom(seg, acc) ==
    IF Len(seg) = 0 \/ ~IsDigit(Head(seg)) THEN acc
    ELSE StoiFrom(Tail(seg), acc * 10 + DigitVal(Head(seg)))

Stoi(seg) == StoiFrom(seg, 0)

\* Position of the first '.' in s, or Len(s) + 1.
FirstDot(s) ==
    IF \E i \in 1..Len(s) : s[i] = "."
    THEN CHOOSE i \in 1..Len(s) : s[i] = "." /\ \A j \in 1..(i - 1) : s[j] # "."
    ELSE Len(s) + 1

\* while (std::getline(ss, segment, '.')) versionNumbers.push_back(stoi(segment))
RECURSIVE ParseVersion(_)
ParseVersion(version) ==
    IF Len(version) = 0 THEN <<>>
    ELSE LET i == FirstDot(version)
         IN  <<Stoi(SubSeq(version, 1, i - 1))>>
                 \o ParseVersion(SubSeq(version, i + 1, Len(version)))

Min(a, b) == IF a <= b THEN a ELSE b

\* The comparison loop of IsNewVersionAvailable from index i on.
RECURSIVE CompareFrom(_, _, _)
CompareFrom(current, newer, i) ==
    IF i > Min(Len(current), Len(newer)) THEN Len(newer) > Len(current)
    ELSE IF newer[i] > current[i] THEN TRUE
    ELSE IF newer[i] < current[i] THEN FALSE
    ELSE CompareFrom(current, newer, i + 1)

\* Mutants of IsNewVersionAvailable: no length rule / ties count as newer.
IsNewVersionAvailable_NoLengthRule(currentVersion, newVersion) ==
    LET current == ParseVersion(currentVersion)
        newer   == ParseVersion(newVersion)
        m       == Min(Len(current), Len(newer))
    IN  CompareFrom(SubSeq(current, 1, m), SubSeq(newer, 1, m), 1)

IsNewVersionAvailable_TextCompare(currentVersion, newVersion) ==
    LET m == Min(Len(currentVersion), Len(newVersion))
        d == {i \in 1..m : currentVersion[i] # newVersion[i]}
    IN  IF d = {} THEN Len(newVersion) > Len(currentVersion)
        ELSE LET i == CHOOSE k \in d : \A j \in d : k <= j
             IN  IsDigit(newVersion[i])
                 /\ (~IsDigit(currentVersion[i])
                     \/ DigitVal(newVersion[i]) > DigitVal(currentVersion[i]))

IsNewVersionAvailable(currentVersion, newVersion) ==
    CompareFrom(ParseVersion(currentVersion), ParseVersion(newVersion), 1)

-----------------------------------------------------------------------------
(* Inputs of the version comparison.                                       *)

MaxVerLen == 3

\* Major numbers and the numbers after it ("1.10.0", "1.9.9", "2.0", ...).
MajorComponents == {1, 2}

VersionComponents == {0, 1, 2, 9, 10}

RECURSIVE TuplesUpTo(_)
TuplesUpTo(n) ==
    IF n = 0 THEN {<<>>}
    ELSE IF n = 1 THEN {<<>>} \cup {<<c>> : c \in MajorComponents}
    ELSE LET shorter == TuplesUpTo(n - 1)
         IN  shorter \cup {Append(t, c) : t \in {u \in shorter : Len(u) = n - 1},
                                          c \in VersionComponents}

VersionTuples == TuplesUpTo(MaxVerLen) \ {<<>>}

VersionStrings == {FormatVersion(t) : t \in VersionTuples}

\* Ota::CheckVersion, the part after a manifest was fetched and parsed:
\* records the manifest's firmware version and activation flag and compares.
CheckVersionParsed(fw, activation) ==
    /\ firmware_version_' = fw
    /\ has_activation_code_' = activation
    /\ has_new_version_' = IsNewVersionAvailable(current_version_, fw)
    /\ UNCHANGED current_version_

\* A poll of the version endpoint that succeeds, on its own.
OtaCheckVersion ==
    /\ \E fw \in VersionStrings : CheckVersionParsed(fw, FALSE)
    /\ UNCHANGED <<image_marked_valid, upVars, wsVars, appVars, boardVars,
                   mlVars, callVars, bgVars, vcVars, schedVars, envVars,
                   talkVars>>

InitOta ==
    /\ firmware_version_ = <<>>
    /\ has_new_version_ = FALSE
    /\ has_activation_code_ = FALSE
    /\ image_marked_valid = FALSE

-----------------------------------------------------------------------------
(* WebsocketProtocol: OpenAudioChannel, ParseServerHello, CloseAudioChannel. *)
(* The operators below say what a call does to the protocol object; the    *)
(* callbacks it fires into the application are added where it is called.   *)

InitWs ==
    /\ websocket_ = "null"
    /\ error_occurred_ = FALSE
    /\ hello_event = FALSE
    /\ server_sample_rate_ = 0
    /\ oac_pc = "idle"
    /\ oac_result = "none"
    /\ opened_fired = FALSE
    /\ ws_hello_sent = FALSE
    /\ ws_server_replied = FALSE
    /\ ws_valid_hello = FALSE
    /\ closed_fired = FALSE

Transports == {"websocket", "mqtt"}

SampleRates == {16000, 24000}

\* OpenAudioChannel up to the wait: the old WebSocket object is deleted
\* (deleting a connected object runs its disconnect handler),
\* error_occurred_ is cleared, a new object is created and connected, the
\* client hello is sent. A failed Connect records SERVER_NOT_FOUND and
\* returns false.
OpenAudioChannelConnect(connect_ok) ==
    /\ oac_pc = "idle"
    /\ websocket_' = IF connect_ok THEN "connected" ELSE "created"
    /\ error_occurred_' = ~connect_ok
    /\ ws_hello_sent' = connect_ok
    /\ oac_pc' = IF connect_ok THEN "wait" ELSE "idle"
    /\ oac_result' = IF connect_ok THEN "none" ELSE "false"
    /\ opened_fired' = FALSE
    /\ ws_server_replied' = FALSE
    /\ ws_valid_hello' = FALSE
    /\ closed_fired' = (websocket_ = "connected")
    /\ UNCHANGED <<hello_event, server_sample_rate_>>

\* xEventGroupWaitBits(..., SERVER_HELLO_EVENT, pdTRUE, pdFALSE, 10000)
\* returns with the bit set (and clears it): the opened callback runs and
\* the call returns true.
OpenAudioChannelHello ==
    /\ oac_pc = "wait"
    /\ hello_event
    /\ hello_event' = FALSE
    /\ opened_fired' = TRUE
    /\ oac_result' = "true"
    /\ oac_pc' = "idle"
    /\ UNCHANGED <<websocket_, error_occurred_, server_sample_rate_,
                   ws_hello_sent, ws_server_replied, ws_valid_hello,
                   closed_fired>>

\* The 10 s pass with the bit still clear: SERVER_TIMEOUT is recorded and
\* the call returns false. The WebSocket object stays as it is.
OpenAudioChannelTimeout ==
    /\ oac_pc = "wait"
    /\ ~hello_event
    /\ error_occurred_' = TRUE
    /\ oac_result' = "false"
    /\ oac_pc' = "idle"
    /\ UNCHANGED <<websocket_, hello_event, server_sample_rate_, opened_fired,
                   ws_hello_sent, ws_server_replied, ws_valid_hello,
                   closed_fired>>

\* ParseServerHello: a hello whose transport is not "websocket" is dropped;
\* otherwise the sample rate is recorded and the event bit is set.
ParseServerHello(transport, rate) ==
    IF transport # "websocket"
    THEN UNCHANGED <<server_sample_rate_, hello_event>>
    ELSE /\ server_sample_rate_' = rate
         /\ hello_event' = TRUE

\* last_incoming_time_ = std::chrono::steady_clock::now(), the last
\* statement of the OnData handler.
OnDataStampsTime == timed_out' = FALSE

\* The OnData handler receives the server's answer to the client hello
\* (one per connection), at any time while the object is connected.
OnDataServerHello ==
    /\ ~rebooted
    /\ websocket_ = "connected"
    /\ ws_hello_sent
    /\ ~ws_server_replied
    /\ \E transport \in Transports, rate \in SampleRates :
         /\ ParseServerHello(transport, rate)
         /\ ws_valid_hello' = (transport = "websocket")
    /\ ws_server_replied' = TRUE
    /\ OnDataStampsTime
    /\ UNCHANGED <<otaVars, upVars, websocket_, error_occurred_, oac_pc,
                   oac_result, opened_fired, ws_hello_sent, closed_fired,
                   appVars, boardVars, mlVars, callVars, bgVars, vcVars,
                   schedVars, envVars, last_sent, wwi_pc, protocol_,
                   thing_invoked, frames_encoded, frames_sent>>

\* CloseAudioChannel: delete websocket_; websocket_ = nullptr. Deleting a
\* WebSocket object tears the transport down and its disconnect handler
\* runs the audio-channel-closed callback.
\* delete websocket_: the destructor of a connected WebSocket closes the
\* transport, and the OnDisconnected handler runs.
DeleteDisconnects == websocket_ = "connected"

CloseAudioChannel ==
    /\ oac_pc = "idle"
    /\ websocket_' = "null"
    /\ ws_hello_sent' = FALSE
    /\ ws_server_replied' = FALSE
    /\ ws_valid_hello' = FALSE
    /\ closed_fired' = (closed_fired \/ DeleteDisconnects)
    /\ UNCHANGED <<error_occurred_, hello_event, server_sample_rate_, oac_pc,
                   oac_result, opened_fired>>

\* The OnDisconnected handler: the transport dropped the connection; the
\* audio-channel-closed callback runs.
OnDisconnected ==
    /\ websocket_ = "connected"
    /\ websocket_' = "disconnected"
    /\ closed_fired' = TRUE
    /\ UNCHANGED <<error_occurred_, hello_event, server_sample_rate_, oac_pc,
                   oac_result, opened_fired, ws_hello_sent, ws_server_replied,
                   ws_valid_hello>>

\* SendText: nothing without a WebSocket object; a failed Send records
\* SERVER_ERROR. A Send on an object that is not connected fails.
SendText(send_ok) ==
    /\ oac_pc = "idle"
    /\ error_occurred_' =
          IF websocket_ = "null" THEN error_occurred_
          ELSE error_occurred_ \/ ~(send_ok /\ websocket_ = "connected")
    /\ UNCHANGED <<websocket_, hello_event, server_sample_rate_, oac_pc,
                   oac_result, opened_fired, ws_hello_sent, ws_server_replied,
                   ws_valid_hello, closed_fired>>

\* The protocol object used on its own: a caller that opens, closes and
\* sends, a transport that drops the connection.
CallerOpens ==
    /\ \E connect_ok \in BOOLEAN : OpenAudioChannelConnect(connect_ok)
    /\ UNCHANGED <<otaVars, upVars, appVars, boardVars, mlVars, callVars,
                   bgVars, vcVars, schedVars, envVars, talkVars>>

CallerGetsHello ==
    /\ OpenAudioChannelHello
    /\ UNCHANGED <<otaVars, upVars, appVars, boardVars, mlVars, callVars,
                   bgVars, vcVars, schedVars, envVars, talkVars>>

CallerTimesOut ==
    /\ OpenAudioChannelTimeout
    /\ UNCHANGED <<otaVars, upVars, appVars, boardVars, mlVars, callVars,
                   bgVars, vcVars, schedVars, envVars, talkVars>>

CallerCloses ==
    /\ websocket_ # "null"
    /\ CloseAudioChannel
    /\ UNCHANGED <<otaVars, upVars, appVars, boardVars, mlVars, callVars,
                   bgVars, vcVars, schedVars, envVars, talkVars>>

CallerSendsText ==
    /\ \E send_ok \in BOOLEAN : SendText(send_ok)
    /\ UNCHANGED <<otaVars, upVars, appVars, boardVars, mlVars, callVars,
                   bgVars, vcVars, schedVars, envVars, talkVars>>

TransportDrops ==
    /\ OnDisconnected
    /\ UNCHANGED <<otaVars, upVars, appVars, boardVars, mlVars, callVars,
                   bgVars, vcVars, schedVars, envVars, talkVars>>

-----------------------------------------------------------------------------
(* Application: calls, the dispatcher, the decode path.                    *)

Threads == {"main", "vc", "user"}

\* Frames the decode queue may hold, decode jobs the background task may
\* have pending, tasks the environment may have pending, ticks of the clock
\* timer between two state changes.
MaxQueue == 1

MaxJobsPending == 1

MaxTasks == 1

MaxTicks == 1

\* Button presses and tts messages of a run.
MaxEvents == 3

\* One more press or message.
EnvEvent ==
    /\ env_events < MaxEvents
    /\ env_events' = env_events + 1

Running == ~rebooted

\* No SetDeviceState call in progress.
NoCall == [pc |-> "none", state |-> "-", prev |-> "-", q0 |-> FALSE]

\* Thread t is not inside SetDeviceState or PlaySound.
Ready(t) == sds[t].pc \in {"none", "noop"} /\ snd[t] = "none"

\* BackgroundTask::WaitForCompletion() returns: no job queued or running.
BgIdle == bg_queue = <<>> /\ bg_pc = "idle"

\* Thread t calls SetDeviceState(state) / PlaySound(sound).
CallSetDeviceState(t, state) ==
    sds' = [sds EXCEPT ![t] = [pc |-> "call", state |-> state,
                               prev |-> "-", q0 |-> FALSE]]

CallPlaySound(t) == snd' = [snd EXCEPT ![t] = "setup"]

\* Mutant of SameState: the early return is never taken.
SameState_Never(state) == FALSE

\* if (device_state_ == state) return;
SameState(state) == device_state_ = state

\* SetDeviceState up to WaitForCompletion: the early return, or
\* clock_ticks_ = 0; previous_state = device_state_; device_state_ = state.
\* q0 remembers whether the decode queue held frames at the transition.
SetDeviceStateBegins(t) ==
    /\ Running
    /\ sds[t].pc = "call"
    /\ IF SameState(sds[t].state)
       THEN /\ sds' = [sds EXCEPT ![t].pc = "noop"]
            /\ UNCHANGED <<device_state_, clock_ticks_>>
       ELSE /\ clock_ticks_' = 0
            /\ device_state_' = sds[t].state
            /\ sds' = [sds EXCEPT ![t] =
                         [pc |-> "wait", state |-> sds[t].state,
                          prev |-> device_state_,
                          q0 |-> audio_decode_queue_ # <<>>]]
    /\ UNCHANGED <<otaVars, upVars, wsVars, keep_listening_, aborted_,
                   audio_decode_queue_, main_tasks_, event_group_,
                   opus_decode_sample_rate_, opus_decoder_, last_iot_states_,
                   boardVars, mlVars, snd, bgVars, vcVars, schedVars, envVars,
                   talkVars>>

\* background_task_->WaitForCompletion() returns.
SetDeviceStateWaits(t) ==
    /\ Running
    /\ sds[t].pc = "wait"
    /\ BgIdle
    /\ sds' = [sds EXCEPT ![t].pc = "entry"]
    /\ UNCHANGED <<otaVars, upVars, wsVars, appVars, boardVars, mlVars, snd,
                   bgVars, vcVars, schedVars, envVars, talkVars>>

\* ResetDecoder: under mutex_, the decoder state is reset and the queue
\* cleared.
ResetDecoder ==
    /\ opus_decoder_' = "fresh"
    /\ audio_decode_queue_' = <<>>

\* SetDecodeSampleRate: a different rate rebuilds the decoder.
SetDecodeSampleRate(sample_rate) ==
    IF opus_decode_sample_rate_ = sample_rate
    THEN UNCHANGED <<opus_decode_sample_rate_, opus_decoder_>>
    ELSE /\ opus_decode_sample_rate_' = sample_rate
         /\ opus_decoder_' = "fresh"

\* What ThingManager::GetStatesJson() returns (no thing changes here).
ThingStatesJson == "states"

\* websocket_->Send(text) fails on an object that is not connected.
SendFails == websocket_ \notin {"null", "connected"}

\* A Send...() of the protocol: the JSON text goes through SendText and
\* reaches the server over a connected object. The transport accepts
\* every text a connected object is handed.
SendMessage(msg) ==
    /\ SendText(TRUE)
    /\ last_sent' = IF websocket_ = "connected" THEN msg ELSE last_sent

NetworkErrorState_Connecting == "connecting"

\* The state the network-error callback sets: SetDeviceState(kDeviceStateIdle).
NetworkErrorState == "idle"

\* SetError runs the network-error callback on the calling thread:
\* SetDeviceState(kDeviceStateIdle), then the Alert.
OnNetworkError(t) ==
    /\ CallSetDeviceState(t, NetworkErrorState)
    /\ snd' = [snd EXCEPT ![t] = "alert"]

\* Mutant of UpdateIotStates: the snapshot is sent on every call.
UpdateIotStates_Always ==
    /\ last_iot_states_' = ThingStatesJson
    /\ SendMessage("iot_states")

\* UpdateIotStates: a changed snapshot is recorded and sent.
UpdateIotStates ==
    IF ThingStatesJson # last_iot_states_
    THEN /\ last_iot_states_' = ThingStatesJson
         /\ SendMessage("iot_states")
    ELSE UNCHANGED <<last_iot_states_, wsVars, last_sent>>

\* led->OnStateChanged() and the switch, up to and including ResetDecoder.
SetDeviceStateEntry(t) ==
    /\ Running
    /\ sds[t].pc = "entry"
    /\ led_state' = device_state_
    /\ LET state == sds[t].state
       IN  /\ CASE state \in {"unknown", "idle"} ->
                     /\ display_status' = "STANDBY"
                     /\ display_emotion' = "neutral"
                     /\ audio_processor_running' = FALSE
                     /\ UNCHANGED <<display_message, audio_decode_queue_,
                                    opus_decoder_, output_enabled>>
                [] state = "connecting" ->
                     /\ display_status' = "CONNECTING"
                     /\ display_emotion' = "neutral"
                     /\ display_message' = ""
                     /\ UNCHANGED <<audio_processor_running,
                                    audio_decode_queue_, opus_decoder_,
                                    output_enabled>>
                [] state = "listening" ->
                     /\ display_status' = "LISTENING"
                     /\ display_emotion' = "neutral"
                     /\ ResetDecoder
                     /\ UNCHANGED <<display_message, audio_processor_running,
                                    output_enabled>>
                [] state = "speaking" ->
                     /\ display_status' = "SPEAKING"
                     /\ ResetDecoder
                     /\ output_enabled' = TRUE
                     /\ audio_processor_running' = FALSE
                     /\ UNCHANGED <<display_emotion, display_message>>
                [] OTHER ->
                     UNCHANGED <<display_status, display_emotion,
                                 display_message, audio_processor_running,
                                 audio_decode_queue_, opus_decoder_,
                                 output_enabled>>
           /\ sds' = [sds EXCEPT ![t] =
                        IF state = "listening"
                        THEN [sds[t] EXCEPT !.pc = "post"] ELSE NoCall]
    /\ UNCHANGED <<otaVars, upVars, wsVars, device_state_, clock_ticks_,
                   keep_listening_, aborted_, main_tasks_, event_group_,
                   opus_decode_sample_rate_, last_iot_states_, pcm_written,
                   power_save_mode, display_notification, mlVars, snd, bgVars,
                   vcVars, schedVars, envVars, talkVars>>

\* The rest of the Listening case: opus_encoder_->ResetState(),
\* audio_processor_.Start(), UpdateIotStates(), and the 120 ms delay when
\* the previous state was Speaking.
SetDeviceStateListeningRest(t) ==
    /\ Running
    /\ sds[t].pc = "post"
    /\ audio_processor_running' = TRUE
    /\ UpdateIotStates
    /\ IF ThingStatesJson # last_iot_states_ /\ SendFails
       THEN /\ sds' = [sds EXCEPT ![t] = [pc |-> "call", state |->
                                            NetworkErrorState,
                                          prev |-> "-", q0 |-> FALSE]]
            /\ snd' = [snd EXCEPT ![t] = "alert"]
       ELSE /\ sds' = [sds EXCEPT ![t] = NoCall]
            /\ UNCHANGED snd
    /\ UNCHANGED <<otaVars, upVars, device_state_, clock_ticks_,
                   keep_listening_, aborted_, audio_decode_queue_,
                   main_tasks_, event_group_, opus_decode_sample_rate_,
                   opus_decoder_, output_enabled, pcm_written,
                   power_save_mode, display_status, display_emotion,
                   display_message, display_notification, led_state, mlVars,
                   bgVars, vcVars, schedVars, envVars, wwi_pc, protocol_,
                   thing_invoked, timed_out, frames_encoded, frames_sent>>

\* PlaySound: codec->EnableOutput(true); SetDecodeSampleRate(16000).
PlaySoundSetup(t) ==
    /\ Running
    /\ snd[t] = "setup"
    /\ output_enabled' = TRUE
    /\ SetDecodeSampleRate(16000)
    /\ snd' = [snd EXCEPT ![t] = "push"]
    /\ UNCHANGED <<otaVars, upVars, wsVars, device_state_, clock_ticks_,
                   keep_listening_, aborted_, audio_decode_queue_,
                   main_tasks_, event_group_, last_iot_states_,
                   audio_processor_running, pcm_written, power_save_mode,
                   display_status, display_emotion, display_message,
                   display_notification, led_state, mlVars, sds, bgVars,
                   vcVars, schedVars, envVars, talkVars>>

\* PlaySound: under mutex_, the frame of the sound goes to the back of the
\* decode queue (a sound is one frame long here). The queue is bounded for
\* the threads that only fill it; the main loop, which empties it, is never
\* held up by the bound.
PlaySoundPush(t) ==
    /\ Running
    /\ snd[t] = "push"
    /\ t # "main" => Len(audio_decode_queue_) < MaxQueue
    /\ audio_decode_queue_' = Append(audio_decode_queue_, "sound")
    /\ snd' = [snd EXCEPT ![t] = "none"]
    /\ UNCHANGED <<otaVars, upVars, wsVars, device_state_, clock_ticks_,
                   keep_listening_, aborted_, main_tasks_, event_group_,
                   opus_decode_sample_rate_, opus_decoder_, last_iot_states_,
                   boardVars, mlVars, sds, bgVars, vcVars, schedVars, envVars,
                   talkVars>>

\* Alert: status, emotion and message go to the display, the sound is played.
Alert(t, status, message, emotion) ==
    /\ display_status' = status
    /\ display_emotion' = emotion
    /\ display_message' = message
    /\ CallPlaySound(t)

\* The network-error callback after its SetDeviceState(Idle) returned:
\* Alert(ERROR, message, "sad", P3_EXCLAMATION).
OnNetworkErrorAlert(t) ==
    /\ Running
    /\ snd[t] = "alert"
    /\ sds[t].pc \in {"none", "noop"}
    /\ Alert(t, "ERROR", "error", "sad")
    /\ UNCHANGED <<otaVars, upVars, wsVars, appVars, audio_processor_running,
                   output_enabled, pcm_written, power_save_mode,
                   display_notification, led_state, mlVars, sds, bgVars,
                   vcVars, schedVars, envVars, talkVars>>

\* Mutant of SchedulePush: the task goes to the front of the list.
SchedulePush_Front(task) == main_tasks_' = <<task>> \o main_tasks_

\* Schedule: main_tasks_.push_back under mutex_, then xEventGroupSetBits.
SchedulePush(task) == main_tasks_' = Append(main_tasks_, task)

\* Mutant of ScheduleNotify: the bit is not set.
ScheduleNotify_Lost == event_group_' = event_group_

ScheduleNotify == event_group_' = event_group_ \cup {"SCHEDULE_EVENT"}

Schedule(task) == SchedulePush(task) /\ ScheduleNotify

Task(kind) == [kind |-> kind]

\* The closure of an AbortSpeaking(reason) task.
AbortTask(reason) == [kind |-> "Abort", reason |-> reason]

NoTask == [task |-> Task("none"), step |-> "none"]

\* Where MainLoop goes after the wait, after InputAudio and after
\* OutputAudio.
AfterOutput(bits) == IF "SCHEDULE_EVENT" \in bits THEN "sched" ELSE "wait"

AfterInput(bits) ==
    IF "AUDIO_OUTPUT_READY_EVENT" \in bits THEN "output" ELSE AfterOutput(bits)

AfterWait(bits) ==
    IF "AUDIO_INPUT_READY_EVENT" \in bits THEN "input" ELSE AfterInput(bits)

\* The bits MainLoop waits for.
WaitedBits ==
    {"SCHEDULE_EVENT", "AUDIO_INPUT_READY_EVENT", "AUDIO_OUTPUT_READY_EVENT"}

\* Mutant of WaitBitsCleared: only the schedule bit is cleared on exit.
WaitBitsCleared_ScheduleOnly(bits) == bits \ {"SCHEDULE_EVENT"}

\* xClearOnExit = pdTRUE: the bits left in the group when the wait returns.
WaitBitsCleared(bits) == bits \ WaitedBits

\* xEventGroupWaitBits(..., pdTRUE, pdFALSE, portMAX_DELAY) returns: the
\* bits are taken and cleared together.
MainLoopWait ==
    /\ Running
    /\ ml_pc = "wait"
    /\ event_group_ # {}
    /\ ml_bits' = event_group_
    /\ event_group_' = WaitBitsCleared(event_group_)
    /\ ml_pc' = AfterWait(event_group_)
    /\ UNCHANGED <<otaVars, upVars, wsVars, device_state_, clock_ticks_,
                   keep_listening_, aborted_, audio_decode_queue_,
                   main_tasks_, opus_decode_sample_rate_, opus_decoder_,
                   last_iot_states_, boardVars, ml_tasks, ml_task, callVars,
                   bgVars, vcVars, schedVars, envVars, talkVars>>

\* InputAudio: the frame read from the codec goes to the wake word
\* detection and to the running audio processor; with the processor
\* stopped and the device Listening it becomes an encode job of the
\* background task.
InputAudio ==
    IF ~audio_processor_running /\ device_state_ = "listening"
    THEN bg_queue' = Append(bg_queue, "mic")
    ELSE UNCHANGED bg_queue

MainLoopInputAudio ==
    /\ Running
    /\ ml_pc = "input"
    /\ InputAudio
    /\ ml_pc' = AfterInput(ml_bits)
    /\ ml_bits' = IF AfterInput(ml_bits) = "wait" THEN {} ELSE ml_bits
    /\ UNCHANGED <<otaVars, upVars, wsVars, appVars, boardVars, ml_tasks,
                   ml_task, callVars, bg_pc, bg_job, bg_alive, vcVars,
                   schedVars, envVars, talkVars>>

\* OutputAudio: an empty queue may switch the output off (Idle and more
\* than 10 s of silence); in Listening the queue is cleared; otherwise the
\* front frame becomes a decode job of the background task.
OutputAudio ==
    IF audio_decode_queue_ = <<>>
    THEN /\ \E silent \in BOOLEAN :
              output_enabled' = IF device_state_ = "idle" /\ silent
                                THEN FALSE ELSE output_enabled
         /\ UNCHANGED <<audio_decode_queue_, bg_queue>>
    ELSE IF device_state_ = "listening"
    THEN /\ audio_decode_queue_' = <<>>
         /\ UNCHANGED <<output_enabled, bg_queue>>
    ELSE /\ audio_decode_queue_' = Tail(audio_decode_queue_)
         /\ bg_queue' = Append(bg_queue, Head(audio_decode_queue_))
         /\ UNCHANGED output_enabled

MainLoopOutputAudio ==
    /\ Running
    /\ ml_pc = "output"
    /\ \/ audio_decode_queue_ = <<>>
       \/ device_state_ = "listening"
       \/ Len(bg_queue) < MaxJobsPending
    /\ OutputAudio
    /\ ml_pc' = AfterOutput(ml_bits)
    /\ ml_bits' = IF AfterOutput(ml_bits) = "wait" THEN {} ELSE ml_bits
    /\ UNCHANGED <<otaVars, upVars, wsVars, device_state_, clock_ticks_,
                   keep_listening_, aborted_, main_tasks_, event_group_,
                   opus_decode_sample_rate_, opus_decoder_, last_iot_states_,
                   audio_processor_running, pcm_written, power_save_mode,
                   display_status, display_emotion, display_message,
                   display_notification, led_state, ml_tasks, ml_task,
                   callVars, bg_pc, bg_job, bg_alive, vcVars, schedVars,
                   envVars, talkVars>>

\* tasks = std::move(main_tasks_) under mutex_.
MainLoopSwap ==
    /\ Running
    /\ ml_pc = "sched"
    /\ ml_tasks' = main_tasks_
    /\ main_tasks_' = <<>>
    /\ ml_pc' = IF main_tasks_ = <<>> THEN "wait" ELSE "run"
    /\ ml_bits' = {}
    /\ UNCHANGED <<otaVars, upVars, wsVars, device_state_, clock_ticks_,
                   keep_listening_, aborted_, audio_decode_queue_,
                   event_group_, opus_decode_sample_rate_, opus_decoder_,
                   last_iot_states_, boardVars, ml_task, callVars, bgVars,
                   vcVars, schedVars, envVars, talkVars>>

\* for (auto& task : tasks) task(): the next task of the batch is a `kind`
\* task / the running task is at `step` and not inside a call.
Starting(kind) ==
    /\ Running
    /\ ml_pc = "run"
    /\ ml_task = NoTask
    /\ ml_tasks # <<>>
    /\ Head(ml_tasks).kind = kind

At(kind, step) ==
    /\ Running
    /\ ml_pc = "run"
    /\ ml_task.task.kind = kind
    /\ ml_task.step = step
    /\ Ready("main")

TaskBegins(step) ==
    /\ ml_task' = [task |-> Head(ml_tasks), step |-> step]
    /\ ml_tasks' = Tail(ml_tasks)
    /\ UNCHANGED ml_pc

TaskGoes(step) ==
    /\ ml_task' = [ml_task EXCEPT !.step = step]
    /\ UNCHANGED <<ml_tasks, ml_pc>>

TaskEnds(rest) ==
    /\ ml_task' = NoTask
    /\ ml_tasks' = rest
    /\ ml_pc' = IF rest = <<>> THEN "wait" ELSE "run"

\* A task whose last statement was a call returns when the call does.
TaskReturns ==
    /\ Running
    /\ ml_pc = "run"
    /\ ml_task.step = "ret"
    /\ Ready("main")
    /\ TaskEnds(ml_tasks)
    /\ UNCHANGED <<otaVars, upVars, wsVars, appVars, boardVars, ml_bits,
                   callVars, bgVars, vcVars, schedVars, envVars, talkVars>>

\* The audio-channel-closed callback: power saving on, and a task that
\* clears the message and sets Idle.
OnAudioChannelClosed ==
    /\ power_save_mode' = TRUE
    /\ Schedule(Task("Closed"))

\* The tasks that call OpenAudioChannel(): of ToggleChatState() and of
\* StartListening() in Idle.
OpenKinds == {"Connect", "Listen"}

AtOpening(step) == \E kind \in OpenKinds : At(kind, step)

\* ---- the task of ToggleChatState() in Idle
\* SetDeviceState(kDeviceStateConnecting)
TaskConnectBegins ==
    /\ Starting("Connect")
    /\ CallSetDeviceState("main", "connecting")
    /\ TaskBegins("open")
    /\ UNCHANGED <<otaVars, upVars, wsVars, appVars, boardVars, ml_bits, snd,
                   bgVars, vcVars, schedVars, envVars, talkVars>>

\* protocol_->OpenAudioChannel() up to the wait. Deleting an old object
\* that is still connected runs the closed callback; nothing was sent over
\* the new object yet. A failed Connect calls
\* SetError, whose network-error callback starts with SetDeviceState(Idle).
TaskConnectOpens ==
    /\ AtOpening("open")
    /\ \E connect_ok \in BOOLEAN :
         /\ OpenAudioChannelConnect(connect_ok)
         /\ last_sent' = "none"
         /\ IF DeleteDisconnects
            THEN OnAudioChannelClosed
            ELSE UNCHANGED <<power_save_mode, main_tasks_, event_group_>>
         /\ IF connect_ok
            THEN /\ TaskGoes("hello")
                 /\ UNCHANGED sds
            ELSE /\ CallSetDeviceState("main", NetworkErrorState)
                 /\ TaskGoes("alert")
    /\ UNCHANGED <<otaVars, upVars, device_state_, clock_ticks_,
                   keep_listening_, aborted_, audio_decode_queue_,
                   opus_decode_sample_rate_, opus_decoder_, last_iot_states_,
                   audio_processor_running, output_enabled, pcm_written,
                   display_status, display_emotion, display_message,
                   display_notification, led_state, ml_bits, snd, bgVars,
                   vcVars, schedVars, envVars, wwi_pc, protocol_,
                   thing_invoked, timed_out, frames_encoded, frames_sent>>

\* The hello arrived: the opened callback runs (power saving off,
\* SetDecodeSampleRate(server rate), last_iot_states_.clear()) up to its
\* SendIotDescriptors.
TaskConnectHello ==
    /\ AtOpening("hello")
    /\ OpenAudioChannelHello
    /\ power_save_mode' = FALSE
    /\ SetDecodeSampleRate(server_sample_rate_)
    /\ last_iot_states_' = ""
    /\ TaskGoes("descriptors")
    /\ UNCHANGED <<otaVars, upVars, device_state_, clock_ticks_,
                   keep_listening_, aborted_, audio_decode_queue_,
                   main_tasks_, event_group_, audio_processor_running,
                   output_enabled, pcm_written, display_status,
                   display_emotion, display_message, display_notification,
                   led_state, ml_bits, callVars, bgVars, vcVars, schedVars,
                   envVars, talkVars>>

\* A task sends msg and goes on at `step`; a failed Send runs the
\* network-error callback first.
TaskSends(msg, step) ==
    /\ SendMessage(msg)
    /\ IF SendFails THEN OnNetworkError("main") ELSE UNCHANGED <<sds, snd>>
    /\ TaskGoes(step)

\* A task sends msg and then calls SetDeviceState(state), its last
\* statement; after a failed Send the call waits for the callback.
TaskSendsAndSets(msg, state) ==
    /\ SendMessage(msg)
    /\ IF SendFails
       THEN /\ OnNetworkError("main")
            /\ TaskGoes(state)
       ELSE /\ CallSetDeviceState("main", state)
            /\ UNCHANGED snd
            /\ TaskGoes("ret")

\* The end of the opened callback: SendIotDescriptors. OpenAudioChannel
\* returns true.
TaskConnectDescriptors ==
    /\ AtOpening("descriptors")
    /\ TaskSends("iot_descriptors",
                 IF ml_task.task.kind = "Connect" THEN "start" ELSE "send")
    /\ UNCHANGED <<otaVars, upVars, appVars, boardVars, ml_bits, bgVars,
                   vcVars, schedVars, envVars, wwi_pc, protocol_,
                   thing_invoked, timed_out, frames_encoded, frames_sent>>

\* Mutant of KeepListeningOfToggle: the flag is cleared.
KeepListeningOfToggle_Cleared == FALSE

\* keep_listening_ = true
KeepListeningOfToggle == TRUE

\* keep_listening_ = true; SendStartListening(kListeningModeAutoStop);
\* SetDeviceState(kDeviceStateListening).
TaskConnectStart ==
    /\ At("Connect", "start")
    /\ keep_listening_' = KeepListeningOfToggle
    /\ TaskSendsAndSets("listen_start_auto", "listening")
    /\ UNCHANGED <<otaVars, upVars, device_state_, clock_ticks_, aborted_,
                   audio_decode_queue_, main_tasks_, event_group_,
                   opus_decode_sample_rate_, opus_decoder_, last_iot_states_,
                   boardVars, ml_bits, bgVars, vcVars, schedVars, envVars,
                   wwi_pc, protocol_, thing_invoked, timed_out,
                   frames_encoded, frames_sent>>

\* The SetDeviceState(state) that ends a task, after the callback of a
\* failed Send.
TaskSetsAfterError ==
    /\ Running
    /\ ml_pc = "run"
    /\ ml_task.step \in {"listening", "idle"}
    /\ Ready("main")
    /\ CallSetDeviceState("main", ml_task.step)
    /\ TaskGoes("ret")
    /\ UNCHANGED <<otaVars, upVars, wsVars, appVars, boardVars, ml_bits, snd,
                   bgVars, vcVars, schedVars, envVars, talkVars>>

\* No hello within 10 s: SetError, whose network-error callback starts with
\* SetDeviceState(Idle).
TaskConnectTimeout ==
    /\ AtOpening("hello")
    /\ OpenAudioChannelTimeout
    /\ CallSetDeviceState("main", NetworkErrorState)
    /\ TaskGoes("alert")
    /\ UNCHANGED <<otaVars, upVars, appVars, boardVars, ml_bits, snd, bgVars,
                   vcVars, schedVars, envVars, talkVars>>

\* The network-error callback after SetDeviceState(Idle):
\* Alert(ERROR, message, "sad", P3_EXCLAMATION); OpenAudioChannel then
\* returns false and the task returns.
TaskNetworkErrorAlert ==
    /\ AtOpening("alert")
    /\ Alert("main", "ERROR", "error", "sad")
    /\ TaskGoes("ret")
    /\ UNCHANGED <<otaVars, upVars, wsVars, appVars, audio_processor_running,
                   output_enabled, pcm_written, power_save_mode,
                   display_notification, led_state, ml_bits, sds, bgVars,
                   vcVars, schedVars, envVars, talkVars>>

\* ---- the task of an inbound tts/start
TtsStartStates_Speaking == {"idle", "listening", "speaking"}

\* The states in which a tts/start makes the device speak.
TtsStartStates == {"idle", "listening"}

TaskTtsStart ==
    /\ Starting("TtsStart")
    /\ aborted_' = FALSE
    /\ IF device_state_ \in TtsStartStates
       THEN /\ CallSetDeviceState("main", "speaking")
            /\ TaskBegins("ret")
       ELSE /\ TaskEnds(Tail(ml_tasks))
            /\ UNCHANGED sds
    /\ UNCHANGED <<otaVars, upVars, wsVars, device_state_, clock_ticks_,
                   keep_listening_, audio_decode_queue_, main_tasks_,
                   event_group_, opus_decode_sample_rate_, opus_decoder_,
                   last_iot_states_, boardVars, ml_bits, snd, bgVars, vcVars,
                   schedVars, envVars, talkVars>>

\* ---- the task of an inbound tts/stop
TaskTtsStop ==
    /\ Starting("TtsStop")
    /\ IF device_state_ = "speaking"
       THEN TaskBegins("wait")
       ELSE TaskEnds(Tail(ml_tasks))
    /\ UNCHANGED <<otaVars, upVars, wsVars, appVars, boardVars, ml_bits,
                   callVars, bgVars, vcVars, schedVars, envVars, talkVars>>

\* background_task_->WaitForCompletion() returned.
TtsStopKeeps_Never == FALSE

\* if (keep_listening_)
TtsStopKeeps == keep_listening_

TaskTtsStopWaited ==
    /\ At("TtsStop", "wait")
    /\ BgIdle
    /\ IF TtsStopKeeps
       THEN TaskSendsAndSets("listen_start_auto", "listening")
       ELSE /\ CallSetDeviceState("main", "idle")
            /\ TaskGoes("ret")
            /\ UNCHANGED <<wsVars, last_sent, snd>>
    /\ UNCHANGED <<otaVars, upVars, appVars, boardVars, ml_bits, bgVars,
                   vcVars, schedVars, envVars, wwi_pc, protocol_,
                   thing_invoked, timed_out, frames_encoded, frames_sent>>

\* AbortSpeaking: aborted_ = true; SendAbortSpeaking(reason).
AbortSpeaking(reason) ==
    /\ aborted_' = TRUE
    /\ SendMessage(IF reason = "none" THEN "abort"
                   ELSE "abort_wake_word_detected")

\* ---- the task of ToggleChatState() in Speaking
TaskAbortSpeaking ==
    /\ Starting("Abort")
    /\ AbortSpeaking(Head(ml_tasks).reason)
    /\ IF SendFails
       THEN /\ OnNetworkError("main")
            /\ TaskBegins("ret")
       ELSE /\ UNCHANGED <<sds, snd>>
            /\ TaskEnds(Tail(ml_tasks))
    /\ UNCHANGED <<otaVars, upVars, device_state_, clock_ticks_,
                   keep_listening_, audio_decode_queue_, main_tasks_,
                   event_group_, opus_decode_sample_rate_, opus_decoder_,
                   last_iot_states_, boardVars, ml_bits, bgVars, vcVars,
                   schedVars, envVars, wwi_pc, protocol_, thing_invoked,
                   timed_out, frames_encoded, frames_sent>>

\* ---- the task of ToggleChatState() in Listening
TaskCloseAudioChannel ==
    /\ Starting("Close")
    /\ CloseAudioChannel
    /\ last_sent' = "none"
    /\ IF DeleteDisconnects
       THEN OnAudioChannelClosed
       ELSE UNCHANGED <<power_save_mode, main_tasks_, event_group_>>
    /\ TaskEnds(Tail(ml_tasks))
    /\ UNCHANGED <<otaVars, upVars, device_state_, clock_ticks_,
                   keep_listening_, aborted_, audio_decode_queue_,
                   opus_decode_sample_rate_, opus_decoder_, last_iot_states_,
                   audio_processor_running, output_enabled, pcm_written,
                   display_status, display_emotion, display_message,
                   display_notification, led_state, ml_bits, callVars, bgVars,
                   vcVars, schedVars, envVars, wwi_pc, protocol_,
                   thing_invoked, timed_out, frames_encoded, frames_sent>>

\* ---- the task of the audio-channel-closed callback
TaskChannelClosed ==
    /\ Starting("Closed")
    /\ display_message' = ""
    /\ CallSetDeviceState("main", "idle")
    /\ TaskBegins("ret")
    /\ UNCHANGED <<otaVars, upVars, wsVars, appVars, audio_processor_running,
                   output_enabled, pcm_written, power_save_mode,
                   display_status, display_emotion, display_notification,
                   led_state, ml_bits, snd, bgVars, vcVars, schedVars,
                   envVars, talkVars>>

\* ---- the upgrade task of CheckNewVersion
\* SetDeviceState(kDeviceStateUpgrading)
TaskUpgradeBegins ==
    /\ Starting("Upgrade")
    /\ CallSetDeviceState("main", "upgrading")
    /\ TaskBegins("prepare")
    /\ UNCHANGED <<otaVars, upVars, wsVars, appVars, boardVars, ml_bits, snd,
                   bgVars, vcVars, schedVars, envVars, talkVars>>

\* The download icon and the new version on the display, power saving
\* off, codec input and output off, the decode queue cleared.
TaskUpgradePrepares ==
    /\ At("Upgrade", "prepare")
    /\ display_message' = "NEW_VERSION"
    /\ power_save_mode' = FALSE
    /\ output_enabled' = FALSE
    /\ audio_decode_queue_' = <<>>
    /\ TaskGoes("dispose")
    /\ UNCHANGED <<otaVars, upVars, wsVars, device_state_, clock_ticks_,
                   keep_listening_, aborted_, main_tasks_, event_group_,
                   opus_decode_sample_rate_, opus_decoder_, last_iot_states_,
                   audio_processor_running, pcm_written, display_status,
                   display_emotion, display_notification, led_state, ml_bits,
                   callVars, bgVars, vcVars, schedVars, envVars, talkVars>>

\* WaitForCompletion() returned: delete background_task_; vTaskDelay(1000);
\* ota_.StartUpgrade(callback).
TaskUpgradeStarts ==
    /\ At("Upgrade", "dispose")
    /\ BgIdle
    /\ bg_alive' = FALSE
    /\ up_pc' = "start"
    /\ TaskGoes("upgrading")
    /\ UNCHANGED <<otaVars, image_same_version, content_length,
                   http_remaining, total_read, image_header_size,
                   image_header_checked, update_handle, ota_begin_called,
                   ota_write_called, ota_written, ota_end_ok, ota_progress,
                   boot_partition, rebooted, wsVars, appVars, boardVars,
                   ml_bits, callVars, bg_queue, bg_pc, bg_job, vcVars,
                   schedVars, envVars, talkVars>>

\* ---- the background task (BackgroundTask is a FIFO of jobs run by one
\* worker). A decode job: if (aborted_) return; Decode; ...
BackgroundJobBegins ==
    /\ Running
    /\ bg_pc = "idle"
    /\ bg_queue # <<>>
    /\ Head(bg_queue) # "mic"
    /\ bg_queue' = Tail(bg_queue)
    /\ IF aborted_
       THEN UNCHANGED <<bg_pc, bg_job, opus_decoder_>>
       ELSE /\ opus_decoder_' = "used"
            /\ \E decode_ok \in BOOLEAN :
                 IF decode_ok
                 THEN /\ bg_pc' = "output"
                      /\ bg_job' = Head(bg_queue)
                 ELSE UNCHANGED <<bg_pc, bg_job>>
    /\ UNCHANGED <<otaVars, upVars, wsVars, device_state_, clock_ticks_,
                   keep_listening_, aborted_, audio_decode_queue_,
                   main_tasks_, event_group_, opus_decode_sample_rate_,
                   last_iot_states_, boardVars, mlVars, callVars, bg_alive,
                   vcVars, schedVars, envVars, talkVars>>

\* ... resample; codec->OutputData(pcm). Write() reaches the hardware when
\* the output is enabled.
BackgroundJobOutputs ==
    /\ Running
    /\ bg_pc = "output"
    /\ pcm_written' = IF output_enabled THEN bg_job ELSE pcm_written
    /\ bg_pc' = "idle"
    /\ bg_job' = "none"
    /\ UNCHANGED <<otaVars, upVars, wsVars, appVars, audio_processor_running,
                   output_enabled, power_save_mode, display_status,
                   display_emotion, display_message, display_notification,
                   led_state, mlVars, callVars, bg_queue, bg_alive, vcVars,
                   schedVars, envVars, talkVars>>

\* ---- the capture path
MaxFrames == 2

\* audio_processor_.OnOutput: the processed frame becomes an encode job of
\* the background task. The callback calls background_task_->Schedule()
\* whether or not the object was deleted: on a deleted object the call
\* writes to the freed queue, and the device may crash.
AudioProcessorOutput ==
    /\ Running
    /\ audio_processor_running
    /\ Len(bg_queue) < MaxJobsPending
    /\ bg_queue' = Append(bg_queue, "mic")
    /\ IF bg_alive
       THEN UNCHANGED rebooted
       ELSE rebooted' \in BOOLEAN
    /\ UNCHANGED <<otaVars, up_pc, image_same_version, content_length,
                   http_remaining, total_read, image_header_size,
                   image_header_checked, update_handle, ota_begin_called,
                   ota_write_called, ota_written, ota_end_ok, ota_progress,
                   boot_partition, wsVars, appVars, boardVars, mlVars,
                   callVars, bg_pc, bg_job, bg_alive, vcVars, schedVars,
                   envVars, talkVars>>

\* Mutant of SendAudioTask: every closure carries the first frame.
SendAudioTask_First(frame) == [kind |-> "AudioFrame", frame |-> 1]

\* The closure [this, opus = std::move(opus)] of the encoded frame.
SendAudioTask(frame) == [kind |-> "AudioFrame", frame |-> frame]

\* An encode job: opus_encoder_->Encode(data, callback); the callback
\* hands the encoded frame to Schedule().
BackgroundJobEncodes ==
    /\ Running
    /\ bg_pc = "idle"
    /\ bg_queue # <<>>
    /\ Head(bg_queue) = "mic"
    /\ frames_encoded < MaxFrames
    /\ bg_queue' = Tail(bg_queue)
    /\ frames_encoded' = frames_encoded + 1
    /\ Schedule(SendAudioTask(frames_encoded + 1))
    /\ UNCHANGED <<otaVars, upVars, wsVars, device_state_, clock_ticks_,
                   keep_listening_, aborted_, audio_decode_queue_,
                   opus_decode_sample_rate_, opus_decoder_, last_iot_states_,
                   boardVars, mlVars, callVars, bg_pc, bg_job, bg_alive,
                   vcVars, schedVars, envVars, last_sent, wwi_pc, protocol_,
                   thing_invoked, timed_out, frames_sent>>

\* WebsocketProtocol::SendAudio: nothing without a WebSocket object;
\* otherwise websocket_->Send(data, size, true), whose result is not looked
\* at. Only a connected object sends.
SendAudio(frame) ==
    frames_sent' = IF websocket_ = "connected"
                   THEN Append(frames_sent, frame)
                   ELSE frames_sent

\* The scheduled task: protocol_->SendAudio(opus).
TaskSendAudio ==
    /\ Starting("AudioFrame")
    /\ SendAudio(Head(ml_tasks).frame)
    /\ TaskEnds(Tail(ml_tasks))
    /\ UNCHANGED <<otaVars, upVars, wsVars, appVars, boardVars, ml_bits,
                   callVars, bgVars, vcVars, schedVars, envVars, last_sent,
                   wwi_pc, protocol_, thing_invoked, timed_out,
                   frames_encoded>>

\* Mutant of AbortReasonOfToggle: the reason of a detected wake word.
AbortReasonOfToggle_WakeWord == "wake_word_detected"

\* AbortSpeaking(kAbortReasonNone)
AbortReasonOfToggle == "none"

\* ToggleChatState() when the device state is `state`.
ToggleChatState(state) ==
       CASE state = "activating" ->
              /\ CallSetDeviceState("user", "idle")
              /\ UNCHANGED <<main_tasks_, event_group_>>
         [] state # "activating" /\ ~protocol_ ->
              UNCHANGED <<sds, main_tasks_, event_group_>>
         [] state = "idle" /\ protocol_ ->
              /\ Len(main_tasks_) < MaxTasks
              /\ Schedule(Task("Connect"))
              /\ UNCHANGED sds
         [] state = "speaking" /\ protocol_ ->
              /\ Len(main_tasks_) < MaxTasks
              /\ Schedule(AbortTask(AbortReasonOfToggle))
              /\ UNCHANGED sds
         [] state = "listening" /\ protocol_ ->
              /\ Len(main_tasks_) < MaxTasks
              /\ Schedule(Task("Close"))
              /\ UNCHANGED sds
         [] OTHER ->
              UNCHANGED <<sds, main_tasks_, event_group_>>

\* ---- the button calls ToggleChatState().
ToggleChatStateIn(state) ==
    /\ Running
    /\ Ready("user")
    /\ wwi_pc = "idle"
    /\ device_state_ = state
    /\ EnvEvent
    /\ ToggleChatState(state)
    /\ UNCHANGED <<otaVars, upVars, wsVars, device_state_, clock_ticks_,
                   keep_listening_, aborted_, audio_decode_queue_,
                   opus_decode_sample_rate_, opus_decoder_, last_iot_states_,
                   boardVars, mlVars, snd, bgVars, vcVars, schedVars,
                   talkVars>>

\* ---- WakeWordInvoke(wake_word) when the device state is `state`, up to
\* the return of ToggleChatState() in Idle.
WakeWordInvokeIn(state) ==
    /\ Running
    /\ Ready("user")
    /\ wwi_pc = "idle"
    /\ device_state_ = state
    /\ EnvEvent
    /\ CASE state = "idle" ->
              /\ ToggleChatState(state)
              /\ wwi_pc' = "notify"
         [] state = "speaking" ->
              /\ Len(main_tasks_) < MaxTasks
              /\ Schedule(AbortTask("none"))
              /\ UNCHANGED <<sds, wwi_pc>>
         [] state = "listening" ->
              /\ Len(main_tasks_) < MaxTasks
              /\ Schedule(Task("Close"))
              /\ UNCHANGED <<sds, wwi_pc>>
         [] OTHER ->
              UNCHANGED <<sds, main_tasks_, event_group_, wwi_pc>>
    /\ UNCHANGED <<otaVars, upVars, wsVars, device_state_, clock_ticks_,
                   keep_listening_, aborted_, audio_decode_queue_,
                   opus_decode_sample_rate_, opus_decoder_, last_iot_states_,
                   boardVars, mlVars, snd, bgVars, vcVars, schedVars,
                   last_sent, protocol_, thing_invoked, timed_out,
                   frames_encoded, frames_sent>>

\* WakeWordInvoke in Idle after ToggleChatState(): the task that sends the
\* wake word is scheduled.
WakeWordInvokeNotifies ==
    /\ Running
    /\ wwi_pc = "notify"
    /\ Len(main_tasks_) < MaxTasks
    /\ Schedule(Task("Wake"))
    /\ wwi_pc' = "idle"
    /\ UNCHANGED <<otaVars, upVars, wsVars, device_state_, clock_ticks_,
                   keep_listening_, aborted_, audio_decode_queue_,
                   opus_decode_sample_rate_, opus_decoder_, last_iot_states_,
                   boardVars, mlVars, callVars, bgVars, vcVars, schedVars,
                   envVars, last_sent, protocol_, thing_invoked, timed_out,
                   frames_encoded, frames_sent>>

\* The task of WakeWordInvoke in Idle:
\* if (protocol_) protocol_->SendWakeWordDetected(wake_word).
TaskWakeWordDetected ==
    /\ Starting("Wake")
    /\ IF protocol_
       THEN /\ SendMessage("wake_word_detected")
            /\ IF SendFails
               THEN /\ OnNetworkError("main")
                    /\ TaskBegins("ret")
               ELSE /\ UNCHANGED <<sds, snd>>
                    /\ TaskEnds(Tail(ml_tasks))
       ELSE /\ TaskEnds(Tail(ml_tasks))
            /\ UNCHANGED <<wsVars, last_sent, sds, snd>>
    /\ UNCHANGED <<otaVars, upVars, appVars, boardVars, ml_bits, bgVars,
                   vcVars, schedVars, envVars, wwi_pc, protocol_,
                   thing_invoked, timed_out, frames_encoded, frames_sent>>

\* Start() after SetStatus(LOADING_PROTOCOL):
\* protocol_ = std::make_unique<WebsocketProtocol>().
StartLoadsProtocol ==
    /\ Running
    /\ ~protocol_
    /\ protocol_' = TRUE
    /\ UNCHANGED <<otaVars, upVars, wsVars, appVars, boardVars, mlVars,
                   callVars, bgVars, vcVars, schedVars, envVars, last_sent,
                   wwi_pc, thing_invoked, timed_out, frames_encoded,
                   frames_sent>>

\* Protocol::IsTimeout(): the last inbound message is older than the idle
\* timeout.
IsTimeout == timed_out

\* WebsocketProtocol::IsAudioChannelOpened
IsAudioChannelOpened ==
    websocket_ = "connected" /\ ~error_occurred_ /\ ~IsTimeout

\* Mutant of KeepListeningOfStart: the flag is left as it is.
KeepListeningOfStart_Kept == keep_listening_

\* keep_listening_ = false
KeepListeningOfStart == FALSE

\* ---- push to talk: StartListening() when the device state is `state`.
StartListeningIn(state) ==
    /\ Running
    /\ Ready("user")
    /\ device_state_ = state
    /\ EnvEvent
    /\ CASE state = "activating" ->
              /\ CallSetDeviceState("user", "idle")
              /\ UNCHANGED <<keep_listening_, main_tasks_, event_group_>>
         [] state # "activating" /\ ~protocol_ ->
              UNCHANGED <<sds, keep_listening_, main_tasks_, event_group_>>
         [] state = "idle" /\ protocol_ ->
              /\ keep_listening_' = KeepListeningOfStart
              /\ Len(main_tasks_) < MaxTasks
              /\ Schedule(Task("Listen"))
              /\ UNCHANGED sds
         [] state = "speaking" /\ protocol_ ->
              /\ keep_listening_' = KeepListeningOfStart
              /\ Len(main_tasks_) < MaxTasks
              /\ Schedule(Task("ListenAbort"))
              /\ UNCHANGED sds
         [] OTHER ->
              /\ keep_listening_' = KeepListeningOfStart
              /\ UNCHANGED <<sds, main_tasks_, event_group_>>
    /\ UNCHANGED <<otaVars, upVars, wsVars, device_state_, clock_ticks_,
                   aborted_, audio_decode_queue_, opus_decode_sample_rate_,
                   opus_decoder_, last_iot_states_, boardVars, mlVars, snd,
                   bgVars, vcVars, schedVars, talkVars>>

\* The task of StartListening() in Idle: the session is opened unless it is
\* open; SetDeviceState(kDeviceStateConnecting) comes first.
TaskListenBegins ==
    /\ Starting("Listen")
    /\ IF IsAudioChannelOpened
       THEN /\ TaskBegins("send")
            /\ UNCHANGED sds
       ELSE /\ CallSetDeviceState("main", "connecting")
            /\ TaskBegins("open")
    /\ UNCHANGED <<otaVars, upVars, wsVars, appVars, boardVars, ml_bits, snd,
                   bgVars, vcVars, schedVars, envVars, talkVars>>

\* The task of StartListening() in Speaking: AbortSpeaking(kAbortReasonNone).
TaskListenAborts ==
    /\ Starting("ListenAbort")
    /\ AbortSpeaking("none")
    /\ IF SendFails THEN OnNetworkError("main") ELSE UNCHANGED <<sds, snd>>
    /\ TaskBegins("send")
    /\ UNCHANGED <<otaVars, upVars, device_state_, clock_ticks_,
                   keep_listening_, audio_decode_queue_, main_tasks_,
                   event_group_, opus_decode_sample_rate_, opus_decoder_,
                   last_iot_states_, boardVars, ml_bits, bgVars, vcVars,
                   schedVars, envVars, wwi_pc, protocol_, thing_invoked,
                   timed_out, frames_encoded, frames_sent>>

\* SendStartListening(kListeningModeManualStop);
\* SetDeviceState(kDeviceStateListening).
TaskListenSends ==
    /\ \E kind \in {"Listen", "ListenAbort"} : At(kind, "send")
    /\ TaskSendsAndSets("listen_start_manual", "listening")
    /\ UNCHANGED <<otaVars, upVars, appVars, boardVars, ml_bits, bgVars,
                   vcVars, schedVars, envVars, wwi_pc, protocol_,
                   thing_invoked, timed_out, frames_encoded, frames_sent>>

\* ---- release: StopListening()
StopListening ==
    /\ Running
    /\ Ready("user")
    /\ EnvEvent
    /\ Len(main_tasks_) < MaxTasks
    /\ Schedule(Task("StopListen"))
    /\ UNCHANGED <<otaVars, upVars, wsVars, device_state_, clock_ticks_,
                   keep_listening_, aborted_, audio_decode_queue_,
                   opus_decode_sample_rate_, opus_decoder_, last_iot_states_,
                   boardVars, mlVars, callVars, bgVars, vcVars, schedVars,
                   talkVars>>

\* The task of StopListening(): if (device_state_ == kDeviceStateListening)
TaskStopListenBegins ==
    /\ Starting("StopListen")
    /\ IF device_state_ = "listening"
       THEN TaskBegins("stop")
       ELSE TaskEnds(Tail(ml_tasks))
    /\ UNCHANGED <<otaVars, upVars, wsVars, appVars, boardVars, ml_bits,
                   callVars, bgVars, vcVars, schedVars, envVars, talkVars>>

\* SendStopListening(); SetDeviceState(kDeviceStateIdle).
TaskStopListenSends ==
    /\ At("StopListen", "stop")
    /\ TaskSendsAndSets("listen_stop", "idle")
    /\ UNCHANGED <<otaVars, upVars, appVars, boardVars, ml_bits, bgVars,
                   vcVars, schedVars, envVars, wwi_pc, protocol_,
                   thing_invoked, timed_out, frames_encoded, frames_sent>>

\* ---- the transport's receive thread
AudioAccepted_Listening(state) == state \in {"speaking", "listening"}

\* if (device_state_ == kDeviceStateSpeaking)
AudioAccepted(state) == state = "speaking"

\* on_incoming_audio_: a binary frame arrives while the device is in
\* `state`; under mutex_, the frame is queued in Speaking. A dropped frame
\* is counted as an event of the environment.
OnIncomingAudioIn(state) ==
    /\ Running
    /\ websocket_ = "connected"
    /\ device_state_ = state
    /\ IF AudioAccepted(state)
       THEN /\ Len(audio_decode_queue_) < MaxQueue
            /\ audio_decode_queue_' = Append(audio_decode_queue_, "server")
            /\ UNCHANGED env_events
       ELSE /\ EnvEvent
            /\ UNCHANGED audio_decode_queue_
    /\ OnDataStampsTime
    /\ UNCHANGED <<otaVars, upVars, wsVars, device_state_, clock_ticks_,
                   keep_listening_, aborted_, main_tasks_, event_group_,
                   opus_decode_sample_rate_, opus_decoder_, last_iot_states_,
                   boardVars, mlVars, callVars, bgVars, vcVars, schedVars,
                   last_sent, wwi_pc, protocol_, thing_invoked,
                   frames_encoded, frames_sent>>

OnIncomingAudio == OnIncomingAudioIn("speaking")

\* on_incoming_json_ with type tts and state start / stop.
OnIncomingTts ==
    /\ Running
    /\ websocket_ = "connected"
    /\ Len(main_tasks_) < MaxTasks
    /\ \E kind \in {"TtsStart", "TtsStop"} : Schedule(Task(kind))
    /\ EnvEvent
    /\ OnDataStampsTime
    /\ UNCHANGED <<otaVars, upVars, wsVars, device_state_, clock_ticks_,
                   keep_listening_, aborted_, audio_decode_queue_,
                   opus_decode_sample_rate_, opus_decoder_, last_iot_states_,
                   boardVars, mlVars, callVars, bgVars, vcVars, schedVars,
                   last_sent, wwi_pc, protocol_, thing_invoked,
                   frames_encoded, frames_sent>>

\* The transport drops the connection: the closed callback runs.
OnTransportDisconnected ==
    /\ Running
    /\ OnDisconnected
    /\ OnAudioChannelClosed
    /\ UNCHANGED <<otaVars, upVars, device_state_, clock_ticks_,
                   keep_listening_, aborted_, audio_decode_queue_,
                   opus_decode_sample_rate_, opus_decoder_, last_iot_states_,
                   audio_processor_running, output_enabled, pcm_written,
                   display_status, display_emotion, display_message,
                   display_notification, led_state, mlVars, callVars, bgVars,
                   vcVars, schedVars, envVars, talkVars>>

\* ---- on_incoming_json_, types stt, llm and tts/sentence_start: the text
\* or the emotion is handed to a scheduled task.
DisplayTask(type) == [kind |-> "Display", type |-> type]

OnIncomingJsonDisplay ==
    /\ Running
    /\ websocket_ = "connected"
    /\ Len(main_tasks_) < MaxTasks
    /\ \E type \in {"sentence_start", "stt", "llm"} :
         Schedule(DisplayTask(type))
    /\ EnvEvent
    /\ OnDataStampsTime
    /\ UNCHANGED <<otaVars, upVars, wsVars, device_state_, clock_ticks_,
                   keep_listening_, aborted_, audio_decode_queue_,
                   opus_decode_sample_rate_, opus_decoder_, last_iot_states_,
                   boardVars, mlVars, callVars, bgVars, vcVars, schedVars,
                   last_sent, wwi_pc, protocol_, thing_invoked,
                   frames_encoded, frames_sent>>

\* display->SetChatMessage("assistant" / "user", message) or
\* display->SetEmotion(emotion).
TaskDisplay ==
    /\ Starting("Display")
    /\ IF Head(ml_tasks).type = "llm"
       THEN /\ display_emotion' = "emotion"
            /\ UNCHANGED display_message
       ELSE /\ display_message' = IF Head(ml_tasks).type = "stt"
                                  THEN "user" ELSE "assistant"
            /\ UNCHANGED display_emotion
    /\ TaskEnds(Tail(ml_tasks))
    /\ UNCHANGED <<otaVars, upVars, wsVars, appVars, audio_processor_running,
                   output_enabled, pcm_written, power_save_mode,
                   display_status, display_notification, led_state, ml_bits,
                   callVars, bgVars, vcVars, schedVars, envVars, talkVars>>

\* ---- on_incoming_json_, type iot: for each command,
\* thing_manager.Invoke(command), in the callback itself.
OnIncomingJsonIot ==
    /\ Running
    /\ websocket_ = "connected"
    /\ EnvEvent
    /\ thing_invoked' = "transport"
    /\ OnDataStampsTime
    /\ UNCHANGED <<otaVars, upVars, wsVars, appVars, boardVars, mlVars,
                   callVars, bgVars, vcVars, schedVars, last_sent, wwi_pc,
                   protocol_, frames_encoded, frames_sent>>

\* ---- the OnData handler with a text message that is not well formed.
\* Unparseable text (cJSON_Parse returns NULL), a message without type and
\* a message of an unknown type are logged or skipped. A tts message
\* without state (state->valuestring with state NULL) and a hello without
\* transport (transport->valuestring in the log line with transport NULL)
\* dereference a null pointer.
NullDereferenced == {"tts_no_state", "hello_no_transport"}

MalformedKinds ==
    {"unparseable", "no_type", "unknown_type"} \cup NullDereferenced

\* The null dereference either faults, and the device resets, or reads
\* through; then no branch matches and the handler goes on.
OnDataMalformed(kind) ==
    /\ Running
    /\ websocket_ = "connected"
    /\ EnvEvent
    /\ \E faults \in (IF kind \in NullDereferenced THEN BOOLEAN ELSE {FALSE}) :
         IF faults
         THEN /\ rebooted' = TRUE
              /\ UNCHANGED timed_out
         ELSE /\ OnDataStampsTime
              /\ UNCHANGED rebooted
    /\ UNCHANGED <<otaVars, up_pc, image_same_version, content_length,
                   http_remaining, total_read, image_header_size,
                   image_header_checked, update_handle, ota_begin_called,
                   ota_write_called, ota_written, ota_end_ok, ota_progress,
                   boot_partition, wsVars, appVars, boardVars, mlVars,
                   callVars, bgVars, vcVars, schedVars, last_sent, wwi_pc,
                   protocol_, thing_invoked, frames_encoded, frames_sent>>

\* ---- the idle timeout passes with no inbound message on the open
\* session.
IdleTimeoutElapses ==
    /\ Running
    /\ IsAudioChannelOpened
    /\ timed_out' = TRUE
    /\ UNCHANGED <<otaVars, upVars, wsVars, appVars, boardVars, mlVars,
                   callVars, bgVars, vcVars, schedVars, envVars, last_sent,
                   wwi_pc, protocol_, thing_invoked, frames_encoded,
                   frames_sent>>

\* ---- the codec interrupt while the output is enabled: OnOutputReady
\* sets its bit.
OnOutputReady ==
    /\ Running
    /\ output_enabled
    /\ "AUDIO_OUTPUT_READY_EVENT" \notin event_group_
    /\ event_group_' = event_group_ \cup {"AUDIO_OUTPUT_READY_EVENT"}
    /\ UNCHANGED <<otaVars, upVars, wsVars, device_state_, clock_ticks_,
                   keep_listening_, aborted_, audio_decode_queue_,
                   main_tasks_, opus_decode_sample_rate_, opus_decoder_,
                   last_iot_states_, boardVars, mlVars, callVars, bgVars,
                   vcVars, schedVars, envVars, talkVars>>

\* ---- the codec interrupt: OnInputReady sets its bit.
OnInputReady ==
    /\ Running
    /\ "AUDIO_INPUT_READY_EVENT" \notin event_group_
    /\ event_group_' = event_group_ \cup {"AUDIO_INPUT_READY_EVENT"}
    /\ UNCHANGED <<otaVars, upVars, wsVars, device_state_, clock_ticks_,
                   keep_listening_, aborted_, audio_decode_queue_,
                   main_tasks_, opus_decode_sample_rate_, opus_decoder_,
                   last_iot_states_, boardVars, mlVars, callVars, bgVars,
                   vcVars, schedVars, envVars, talkVars>>

\* ---- the clock timer: OnClockTimer (the tenth tick, which may schedule
\* the clock display, lies beyond MaxTicks). The timer is started at the end
\* of Start().
OnClockTimer ==
    /\ Running
    /\ device_state_ # "starting"
    /\ clock_ticks_ < MaxTicks
    /\ clock_ticks_' = clock_ticks_ + 1
    /\ UNCHANGED <<otaVars, upVars, wsVars, device_state_, keep_listening_,
                   aborted_, audio_decode_queue_, main_tasks_, event_group_,
                   opus_decode_sample_rate_, opus_decoder_, last_iot_states_,
                   boardVars, mlVars, callVars, bgVars, vcVars, schedVars,
                   envVars, talkVars>>

\* ---- CanEnterSleepMode()
CanEnterSleepMode_IdleOnly == device_state_ = "idle"

\* if (device_state_ != kDeviceStateIdle) return false;
\* if (protocol_ && protocol_->IsAudioChannelOpened()) return false;
\* return true;
CanEnterSleepMode ==
    IF device_state_ # "idle"
    THEN FALSE
    ELSE IF protocol_ /\ IsAudioChannelOpened
         THEN FALSE
         ELSE TRUE

-----------------------------------------------------------------------------
(* CheckNewVersion: the version-check task.                                *)

\* const int MAX_RETRY = 10
MAX_RETRY == 10

\* for (int i = 0; i < 60; ++i)
ActivationPolls == 60

\* Digits of an activation code.
MaxDigits == 2

\* Mutant of RetryCountAfterSuccess: a successful poll keeps the count.
RetryCountAfterSuccess_Kept == retry_count

\* retry_count = 0 after a successful CheckVersion.
RetryCountAfterSuccess == 0

\* One turn of the while loop up to the first call that takes time:
\* ota_.CheckVersion() and what follows it. A failed poll may have parsed
\* the activation section of the manifest before it failed.
CheckNewVersionPoll(results, versions, activations) ==
    /\ Running
    /\ vc_pc = "poll"
    /\ \E ok \in results, fw \in versions, activation \in activations :
         IF ~ok
         THEN /\ retry_count' = retry_count + 1
              /\ consecutive_failures' = consecutive_failures + 1
              /\ vc_pc' = IF retry_count + 1 >= MAX_RETRY
                          THEN "gaveup" ELSE "poll"
              /\ \E parsed \in BOOLEAN :
                   has_activation_code_' =
                      IF parsed THEN activation ELSE has_activation_code_
              /\ UNCHANGED <<current_version_, firmware_version_,
                             has_new_version_, image_marked_valid,
                             display_status, display_emotion, display_message,
                             display_notification, sds, snd>>
         ELSE /\ CheckVersionParsed(fw, activation)
              /\ retry_count' = RetryCountAfterSuccess
              /\ consecutive_failures' = 0
              /\ IF IsNewVersionAvailable(current_version_, fw)
                 THEN \* Alert(OTA_UPGRADE, UPGRADING, "happy", P3_UPGRADE)
                      /\ Alert("vc", "OTA_UPGRADE", "UPGRADING", "happy")
                      /\ vc_pc' = "wait_idle"
                      /\ UNCHANGED <<image_marked_valid, display_notification,
                                     sds>>
                 ELSE \* MarkCurrentVersionValid(); ShowNotification(version)
                      /\ image_marked_valid' = TRUE
                      /\ display_notification' = "VERSION"
                      /\ IF activation
                         THEN /\ CallSetDeviceState("vc", "activating")
                              /\ vc_pc' = "act_alert"
                         ELSE /\ CallSetDeviceState("vc", "idle")
                              /\ vc_pc' = "ok_message"
                      /\ UNCHANGED <<display_status, display_emotion,
                                     display_message, snd>>
    /\ UNCHANGED <<upVars, wsVars, appVars, audio_processor_running,
                   output_enabled, pcm_written, power_save_mode, led_state,
                   mlVars, bgVars, vc_i, vc_digits, schedVars, envVars,
                   talkVars>>

\* do { vTaskDelay(3000); } while (GetDeviceState() != kDeviceStateIdle);
\* Schedule(upgrade task); return.
UpgradeWaitIdle ==
    /\ Running
    /\ vc_pc = "wait_idle"
    /\ Ready("vc")
    /\ device_state_ = "idle"
    /\ Schedule(Task("Upgrade"))
    /\ vc_pc' = "scheduled"
    /\ UNCHANGED <<otaVars, upVars, wsVars, device_state_, clock_ticks_,
                   keep_listening_, aborted_, audio_decode_queue_,
                   opus_decode_sample_rate_, opus_decoder_, last_iot_states_,
                   boardVars, mlVars, callVars, bgVars, retry_count, vc_i,
                   vc_digits, consecutive_failures, schedVars, envVars,
                   talkVars>>

\* ShowActivationCode: Alert(ACTIVATION, message, "happy", P3_ACTIVATION).
ActivationAlert ==
    /\ Running
    /\ vc_pc = "act_alert"
    /\ Ready("vc")
    /\ Alert("vc", "ACTIVATION", "activation", "happy")
    /\ vc_pc' = "act_wait"
    /\ UNCHANGED <<otaVars, upVars, wsVars, appVars, audio_processor_running,
                   output_enabled, pcm_written, power_save_mode,
                   display_notification, led_state, mlVars, sds, bgVars,
                   retry_count, vc_i, vc_digits, consecutive_failures,
                   schedVars, envVars, talkVars>>

\* vTaskDelay(1000); background_task_->WaitForCompletion() returns.
ActivationWait ==
    /\ Running
    /\ vc_pc = "act_wait"
    /\ Ready("vc")
    /\ BgIdle
    /\ \E digits \in 1..MaxDigits : vc_digits' = digits
    /\ vc_pc' = "act_digits"
    /\ UNCHANGED <<otaVars, upVars, wsVars, appVars, boardVars, mlVars,
                   callVars, bgVars, retry_count, vc_i, consecutive_failures,
                   schedVars, envVars, talkVars>>

\* for (const auto& digit : code) PlaySound(digit sound)
ActivationDigits ==
    /\ Running
    /\ vc_pc = "act_digits"
    /\ Ready("vc")
    /\ IF vc_digits > 0
       THEN /\ CallPlaySound("vc")
            /\ vc_digits' = vc_digits - 1
            /\ UNCHANGED <<vc_pc, vc_i>>
       ELSE /\ vc_pc' = "act_loop"
            /\ vc_i' = 0
            /\ UNCHANGED <<snd, vc_digits>>
    /\ UNCHANGED <<otaVars, upVars, wsVars, appVars, boardVars, mlVars, sds,
                   bgVars, retry_count, consecutive_failures, schedVars,
                   envVars, talkVars>>

\* for (i = 0; i < 60; ++i) { if (device_state_ == Idle) break;
\* vTaskDelay(1000); } continue;
ActivationLoopEnds_Always == TRUE

\* The loop ends after 60 turns or when the device state is Idle.
ActivationLoopEnds == vc_i >= ActivationPolls \/ device_state_ = "idle"

ActivationLoop ==
    /\ Running
    /\ vc_pc = "act_loop"
    /\ IF ~ActivationLoopEnds
       THEN /\ vc_i' = vc_i + 1
            /\ UNCHANGED vc_pc
       ELSE /\ vc_pc' = "poll"
            /\ vc_i' = 0
    /\ UNCHANGED <<otaVars, upVars, wsVars, appVars, boardVars, mlVars,
                   callVars, bgVars, retry_count, vc_digits,
                   consecutive_failures, schedVars, envVars, talkVars>>

\* After SetDeviceState(Idle): SetChatMessage("system", "");
\* PlaySound(P3_SUCCESS); break.
VersionCheckSuccess ==
    /\ Running
    /\ vc_pc = "ok_message"
    /\ Ready("vc")
    /\ display_message' = ""
    /\ CallPlaySound("vc")
    /\ vc_pc' = "ok_sound"
    /\ UNCHANGED <<otaVars, upVars, wsVars, appVars, audio_processor_running,
                   output_enabled, pcm_written, power_save_mode,
                   display_status, display_emotion, display_notification,
                   led_state, mlVars, sds, bgVars, retry_count, vc_i,
                   vc_digits, consecutive_failures, schedVars, envVars,
                   talkVars>>

-----------------------------------------------------------------------------
(* Ota::Upgrade (ota.cc) and the tail of the upgrade task (application.cc). *)

\* sizeof(esp_image_header_t) + sizeof(esp_image_segment_header_t)
\*   + sizeof(esp_app_desc_t) = 24 + 8 + 256
HeaderSize == 288

\* char buffer[512]
BufferSize == 512

\* Body lengths of the download and the sizes one Read may return (a read
\* returns at most the buffer, and may return less).
ContentLengths == {0, 200, 700, 1100}

ReadSizes == {150, 288, BufferSize}

InitUpgradeVars ==
    /\ content_length = 0
    /\ http_remaining = 0
    /\ total_read = 0
    /\ image_header_size = 0
    /\ image_header_checked = FALSE
    /\ update_handle = 0
    /\ ota_begin_called = FALSE
    /\ ota_write_called = FALSE
    /\ ota_written = 0
    /\ ota_end_ok = FALSE
    /\ ota_progress = 0
    /\ boot_partition = "running"
    /\ rebooted = FALSE

\* No upgrade task in this run.
InitUpgradeIdle ==
    /\ InitUpgradeVars
    /\ image_same_version = FALSE
    /\ up_pc = "none"

\* Upgrade returns to the upgrade task (any of its early returns).
ReturnFromUpgrade == up_pc' = "returned"

\* ota_.StartUpgrade(callback) -> Upgrade(firmware_url_):
\* esp_ota_get_next_update_partition, http->Open, http->GetBodyLength.
UpgradeOpen ==
    /\ up_pc = "start"
    /\ \E partition_ok \in BOOLEAN, open_ok \in BOOLEAN, len \in ContentLengths :
         IF ~partition_ok \/ ~open_ok \/ len = 0
         THEN /\ ReturnFromUpgrade
              /\ UNCHANGED <<content_length, http_remaining>>
         ELSE /\ up_pc' = "read"
              /\ content_length' = len
              /\ http_remaining' = len
    /\ UNCHANGED <<otaVars, image_same_version, total_read, image_header_size,
                   image_header_checked, update_handle, ota_begin_called,
                   ota_write_called, ota_written, ota_end_ok, ota_progress,
                   boot_partition, rebooted, wsVars, appVars, boardVars,
                   mlVars, callVars, bgVars, vcVars, schedVars, envVars,
                   talkVars>>

\* esp_ota_write(handle, buffer, ret): a handle that esp_ota_begin never
\* gave (0) is refused with ESP_ERR_INVALID_ARG; else flash may fail.
EspOtaWriteOk(handle, flash_ok) == handle # 0 /\ flash_ok

\* One iteration of the read loop: http->Read, the progress report, the
\* header check (version compare, esp_ota_begin) and esp_ota_write.
UpgradeReadChunk ==
    /\ up_pc = "read"
    /\ \E read_ok \in BOOLEAN, size \in ReadSizes, tick \in BOOLEAN,
          begin_ok \in BOOLEAN, flash_ok \in BOOLEAN :
         LET ret      == Min(size, http_remaining)
             read     == total_read + ret
             report   == tick \/ ret = 0
             hdr      == image_header_size + ret
             checking == ~image_header_checked /\ hdr >= HeaderSize
             handle   == IF checking /\ ~image_same_version /\ begin_ok
                         THEN 1 ELSE update_handle
         IN  IF ~read_ok
             THEN \* ret < 0
                  /\ ReturnFromUpgrade
                  /\ UNCHANGED <<http_remaining, total_read, ota_progress,
                                 image_header_size, image_header_checked,
                                 update_handle, ota_begin_called,
                                 ota_write_called, ota_written>>
             ELSE /\ http_remaining' = http_remaining - ret
                  /\ total_read' = read
                  /\ ota_progress' = IF report THEN (read * 100) \div content_length
                                     ELSE ota_progress
                  /\ IF ret = 0
                     THEN /\ up_pc' = "end"
                          /\ UNCHANGED <<image_header_size, image_header_checked,
                                         update_handle, ota_begin_called,
                                         ota_write_called, ota_written>>
                     ELSE IF checking /\ image_same_version
                     THEN \* "Firmware version is the same, skipping upgrade"
                          /\ ReturnFromUpgrade
                          /\ image_header_size' = hdr
                          /\ UNCHANGED <<image_header_checked, update_handle,
                                         ota_begin_called, ota_write_called,
                                         ota_written>>
                     ELSE IF checking /\ ~begin_ok
                     THEN \* esp_ota_begin failed
                          /\ ReturnFromUpgrade
                          /\ image_header_size' = hdr
                          /\ ota_begin_called' = TRUE
                          /\ UNCHANGED <<image_header_checked, update_handle,
                                         ota_write_called, ota_written>>
                     ELSE /\ image_header_size' =
                               IF image_header_checked \/ checking THEN 0 ELSE hdr
                          /\ image_header_checked' = (image_header_checked \/ checking)
                          /\ ota_begin_called' = (ota_begin_called \/ checking)
                          /\ update_handle' = handle
                          /\ ota_write_called' = TRUE
                          /\ IF EspOtaWriteOk(handle, flash_ok)
                             THEN /\ ota_written' = ota_written + ret
                                  /\ up_pc' = "read"
                             ELSE /\ ReturnFromUpgrade
                                  /\ UNCHANGED ota_written
    /\ UNCHANGED <<otaVars, image_same_version, content_length, ota_end_ok,
                   boot_partition, rebooted, wsVars, appVars, boardVars,
                   mlVars, callVars, bgVars, vcVars, schedVars, envVars,
                   talkVars>>

\* esp_ota_end(handle): fails for a handle esp_ota_begin never gave, and
\* when the written image does not validate.
EspOtaEndOk(handle, image_valid) == handle # 0 /\ image_valid

\* After the loop: esp_ota_end, esp_ota_set_boot_partition. With
\* return_on_error the failure of esp_ota_end ends Upgrade, as in the code.
UpgradeEndWith(return_on_error) ==
    /\ up_pc = "end"
    /\ \E image_valid \in BOOLEAN, set_boot_ok \in BOOLEAN :
         LET end_ok == EspOtaEndOk(update_handle, image_valid)
         IN  IF ~end_ok /\ return_on_error
             THEN /\ ReturnFromUpgrade
                  /\ UNCHANGED <<ota_end_ok, boot_partition>>
             ELSE /\ ota_end_ok' = end_ok
                  /\ IF set_boot_ok
                     THEN /\ boot_partition' = "update"
                          /\ up_pc' = "restart"
                     ELSE /\ ReturnFromUpgrade
                          /\ UNCHANGED boot_partition
    /\ UNCHANGED <<otaVars, image_same_version, content_length,
                   http_remaining, total_read, image_header_size,
                   image_header_checked, update_handle, ota_begin_called,
                   ota_write_called, ota_written, ota_progress, rebooted,
                   wsVars, appVars, boardVars, mlVars, callVars, bgVars,
                   vcVars, schedVars, envVars, talkVars>>

\* Mutant: the result of esp_ota_end is logged and not acted on.
UpgradeEnd_IgnoreEndError == UpgradeEndWith(FALSE)

UpgradeEnd == UpgradeEndWith(TRUE)

\* "rebooting in 3 seconds...": vTaskDelay(3000); esp_restart().
UpgradeRestart ==
    /\ up_pc = "restart"
    /\ up_pc' = "rebooted"
    /\ rebooted' = TRUE
    /\ UNCHANGED <<otaVars, image_same_version, content_length,
                   http_remaining, total_read, image_header_size,
                   image_header_checked, update_handle, ota_begin_called,
                   ota_write_called, ota_written, ota_end_ok, ota_progress,
                   boot_partition, wsVars, appVars, boardVars, mlVars,
                   callVars, bgVars, vcVars, schedVars, envVars, talkVars>>

\* The upgrade task after StartUpgrade returned:
\* display->SetStatus(UPGRADE_FAILED); vTaskDelay(3000); Reboot().
UpgradeTaskFailed ==
    /\ up_pc = "returned"
    /\ display_status' = "UPGRADE_FAILED"
    /\ up_pc' = "rebooted"
    /\ rebooted' = TRUE
    /\ UNCHANGED <<otaVars, image_same_version, content_length,
                   http_remaining, total_read, image_header_size,
                   image_header_checked, update_handle, ota_begin_called,
                   ota_write_called, ota_written, ota_end_ok, ota_progress,
                   boot_partition, wsVars, appVars, audio_processor_running,
                   output_enabled, pcm_written, power_save_mode,
                   display_emotion, display_message, display_notification,
                   led_state, mlVars, callVars, bgVars, vcVars, schedVars,
                   envVars, talkVars>>

-----------------------------------------------------------------------------
(* The state after Application::Start(): the device is Idle, the main      *)
(* loop waits, the version-check task has not polled yet.                  *)

InitApplication ==
    /\ device_state_ = "idle"
    /\ clock_ticks_ = 0
    /\ keep_listening_ = FALSE
    /\ aborted_ = FALSE
    /\ audio_decode_queue_ = <<>>
    /\ main_tasks_ = <<>>
    /\ event_group_ = {}
    /\ opus_decode_sample_rate_ = 24000
    /\ opus_decoder_ = "fresh"
    /\ last_iot_states_ = ""

InitBoard ==
    /\ audio_processor_running = FALSE
    /\ output_enabled = TRUE
    /\ pcm_written = "none"
    /\ power_save_mode = TRUE
    /\ display_status = "STANDBY"
    /\ display_emotion = "neutral"
    /\ display_message = ""
    /\ display_notification = "none"
    /\ led_state = "idle"

InitThreads ==
    /\ ml_pc = "wait"
    /\ ml_bits = {}
    /\ ml_tasks = <<>>
    /\ ml_task = NoTask
    /\ sds = [t \in Threads |-> NoCall]
    /\ snd = [t \in Threads |-> "none"]
    /\ bg_queue = <<>>
    /\ bg_pc = "idle"
    /\ bg_job = "none"
    /\ bg_alive = TRUE
    /\ retry_count = 0
    /\ vc_i = 0
    /\ vc_digits = 0
    /\ consecutive_failures = 0
    /\ next_id = 0
    /\ last_run = 0
    /\ sched_notify = {}
    /\ env_events = 0
    /\ last_sent = "none"
    /\ wwi_pc = "idle"
    /\ protocol_ = TRUE
    /\ thing_invoked = "none"
    /\ timed_out = FALSE
    /\ frames_encoded = 0
    /\ frames_sent = <<>>

InitStarted ==
    /\ current_version_ = <<"1", ".", "0">>
    /\ InitOta
    /\ InitUpgradeIdle
    /\ InitWs
    /\ InitApplication
    /\ InitBoard
    /\ InitThreads

-----------------------------------------------------------------------------
(* SpecBoot: the first seconds after Start(). The version-check task finds *)
(* the firmware up to date and plays the success sound while the user      *)
(* presses the button; the server answers the hello or stays silent and    *)
(* sends nothing else.                                                     *)

InitBoot ==
    /\ InitStarted
    /\ vc_pc = "poll"

PollUpToDate ==
    CheckNewVersionPoll({TRUE}, {<<"1", ".", "0">>}, {FALSE})

NextBoot ==
    \/ PollUpToDate
    \/ VersionCheckSuccess
    \/ \E t \in Threads : SetDeviceStateBegins(t)
    \/ \E t \in Threads : SetDeviceStateWaits(t)
    \/ \E t \in Threads : SetDeviceStateEntry(t)
    \/ \E t \in Threads : SetDeviceStateListeningRest(t)
    \/ \E t \in Threads : PlaySoundSetup(t)
    \/ \E t \in Threads : PlaySoundPush(t)
    \/ MainLoopWait
    \/ MainLoopOutputAudio
    \/ MainLoopSwap
    \/ TaskReturns
    \/ TaskConnectBegins
    \/ TaskConnectOpens
    \/ TaskConnectHello
    \/ TaskConnectDescriptors
    \/ TaskConnectStart
    \/ TaskConnectTimeout
    \/ TaskNetworkErrorAlert
    \/ BackgroundJobBegins
    \/ BackgroundJobOutputs
    \/ ToggleChatStateIn("idle")
    \/ OnDataServerHello
    \/ OnOutputReady

SpecBoot == InitBoot /\ [][NextBoot]_vars

\* C3 as stated: when the device went to Listening with frames in the
\* decode queue, the queue is empty at the end of the Listening entry
\* action, whatever the other threads did meanwhile.
C3_QueueEmptyAfterListeningEntry ==
    [][\A t \in Threads :
         (sds[t].pc = "post" /\ sds'[t].pc = "none" /\ sds[t].q0)
           => audio_decode_queue_' = <<>>]_vars

\* C11 as stated: a SetDeviceState call that writes device_state_ is made
\* by a task the main loop is running, and no two SetDeviceState calls are
\* in progress at the same time.
C11_OnlyTasksWriteState ==
    /\ [](Cardinality({t \in Threads :
                         sds[t].pc \in {"call", "wait", "entry", "post"}}) <= 1)
    /\ [][\A t \in Threads :
            (sds[t].pc = "call" /\ sds'[t].pc = "wait")
              => (t = "main" /\ ml_pc = "run")]_vars

\* C36: while a decode job is running on the background task, the Opus
\* decoder is neither rebuilt nor reset.
C36_DecoderKeptDuringJob ==
    [][bg_pc = "output" => opus_decoder_' = opus_decoder_]_vars

-----------------------------------------------------------------------------
(* Spec: a conversation after the version check has finished. The user     *)
(* toggles the chat state, the server answers, speaks and drops the        *)
(* connection, the codec asks for output. The transport accepts every      *)
(* send.                                                                   *)

\* The state SpecBoot ends in when nobody touched the device: the poll
\* succeeded, SetDeviceState(Idle) returned early, the success sound was
\* decoded at 16 kHz and played.
Init ==
    /\ current_version_ = <<"1", ".", "0">>
    /\ firmware_version_ = <<"1", ".", "0">>
    /\ has_new_version_ = FALSE
    /\ has_activation_code_ = FALSE
    /\ image_marked_valid = TRUE
    /\ InitUpgradeIdle
    /\ InitWs
    /\ device_state_ = "idle"
    /\ clock_ticks_ = 0
    /\ keep_listening_ = FALSE
    /\ aborted_ = FALSE
    /\ audio_decode_queue_ = <<>>
    /\ main_tasks_ = <<>>
    /\ event_group_ = {}
    /\ opus_decode_sample_rate_ = 16000
    /\ opus_decoder_ = "used"
    /\ last_iot_states_ = ""
    /\ audio_processor_running = FALSE
    /\ output_enabled = TRUE
    /\ pcm_written = "sound"
    /\ power_save_mode = TRUE
    /\ display_status = "STANDBY"
    /\ display_emotion = "neutral"
    /\ display_message = ""
    /\ display_notification = "VERSION"
    /\ led_state = "idle"
    /\ ml_pc = "wait"
    /\ ml_bits = {}
    /\ ml_tasks = <<>>
    /\ ml_task = NoTask
    /\ sds = [t \in Threads |->
                IF t = "vc" THEN [NoCall EXCEPT !.pc = "noop", !.state = "idle"]
                ELSE NoCall]
    /\ snd = [t \in Threads |-> "none"]
    /\ bg_queue = <<>>
    /\ bg_pc = "idle"
    /\ bg_job = "none"
    /\ bg_alive = TRUE
    /\ vc_pc = "ok_sound"
    /\ retry_count = 0
    /\ vc_i = 0
    /\ vc_digits = 0
    /\ consecutive_failures = 0
    /\ next_id = 0
    /\ last_run = 0
    /\ sched_notify = {}
    /\ env_events = 0
    /\ last_sent = "none"
    /\ wwi_pc = "idle"
    /\ protocol_ = TRUE
    /\ thing_invoked = "none"
    /\ timed_out = FALSE
    /\ frames_encoded = 0
    /\ frames_sent = <<>>

Next ==
    \/ MainLoopWait
    \/ MainLoopOutputAudio
    \/ MainLoopSwap
    \/ TaskReturns
    \/ TaskConnectBegins
    \/ TaskConnectOpens
    \/ TaskConnectHello
    \/ TaskConnectDescriptors
    \/ TaskConnectStart
    \/ TaskSetsAfterError
    \/ \E t \in Threads : OnNetworkErrorAlert(t)
    \/ TaskConnectTimeout
    \/ TaskNetworkErrorAlert
    \/ TaskTtsStart
    \/ TaskTtsStop
    \/ TaskTtsStopWaited
    \/ TaskAbortSpeaking
    \/ TaskCloseAudioChannel
    \/ TaskChannelClosed
    \/ \E t \in Threads : SetDeviceStateBegins(t)
    \/ \E t \in Threads : SetDeviceStateWaits(t)
    \/ \E t \in Threads : SetDeviceStateEntry(t)
    \/ \E t \in Threads : SetDeviceStateListeningRest(t)
    \/ \E t \in Threads : PlaySoundSetup(t)
    \/ \E t \in Threads : PlaySoundPush(t)
    \/ BackgroundJobBegins
    \/ BackgroundJobOutputs
    \/ \E state \in {"idle", "speaking", "listening"} : ToggleChatStateIn(state)
    \/ OnIncomingAudio
    \/ OnIncomingTts
    \/ OnDataServerHello
    \/ OnTransportDisconnected
    \/ OnOutputReady
    \/ OnClockTimer

Spec == Init /\ [][Next]_vars

\* C1: SetDeviceState(S) while the device state is S returns at once: the
\* step changes nothing but the caller's position (no tick reset, no wait
\* for the background task, no LED, display, decoder, front-end or IoT
\* action), and the entry actions run only in calls that changed the state.
C1_SameStateIsNoOp ==
    /\ [](\A t \in Threads :
            sds[t].pc \in {"wait", "entry", "post"}
               => sds[t].prev # sds[t].state)
    /\ [][\A t \in Threads :
            (sds[t].pc = "call" /\ sds[t].state = device_state_
                /\ sds'[t] # sds[t])
              => /\ sds'[t].pc = "noop"
                 /\ \A u \in Threads \ {t} : sds'[u] = sds[u]
                 /\ UNCHANGED <<otaVars, upVars, wsVars, appVars, boardVars,
                                mlVars, snd, bgVars, vcVars, schedVars,
                                envVars, talkVars>>]_vars

\* C1 witness: a SetDeviceState(S) call of a task has returned early in state
\* S, the tick counter is not zero.
C1_Witness ==
    /\ sds["main"].pc = "noop"
    /\ sds["main"].state = device_state_
    /\ ml_task.task.kind = "Closed"
    /\ clock_ticks_ > 0

\* C13: ToggleChatState() in Idle schedules one task and does nothing else.
\* The task calls SetDeviceState(Connecting) and then OpenAudioChannel();
\* only after the open returned true does it set keep_listening_, send
\* start-listening in auto-stop mode and then call SetDeviceState(Listening).
\* After an open that returned false the task sends nothing, leaves the
\* flag alone and never calls SetDeviceState(Listening), and the device
\* does not enter Listening while the task runs.
C13_ToggleInIdle ==
    /\ [][ToggleChatStateIn("idle")
            => /\ main_tasks_' = Append(main_tasks_, Task("Connect"))
               /\ UNCHANGED <<device_state_, sds, keep_listening_, last_sent,
                              wsVars>>]_vars
    /\ [][(Starting("Connect") /\ ml_task' # ml_task)
            => /\ sds'["main"].pc = "call"
               /\ sds'["main"].state = "connecting"
               /\ ml_task'.step = "open"
               /\ UNCHANGED <<wsVars, keep_listening_, last_sent>>]_vars
    /\ [](ml_task.task.kind = "Connect"
            => /\ ml_task.step \in {"descriptors", "start", "listening"}
                    => oac_result = "true"
               /\ ml_task.step = "alert" => oac_result = "false")
    /\ [][(ml_task.task.kind = "Connect" /\ ml_task.step = "start"
             /\ ml_task' # ml_task)
            => /\ keep_listening_'
               /\ websocket_ = "connected"
                    => /\ last_sent' = "listen_start_auto"
                       /\ sds'["main"].pc = "call"
                       /\ sds'["main"].state = "listening"]_vars
    /\ [][(ml_task.task.kind = "Connect" /\ sds'["main"] # sds["main"]
             /\ sds'["main"].pc = "call"
             /\ sds'["main"].state = "listening")
            => /\ oac_result = "true"
               /\ ml_task.step \in {"start", "listening"}
               /\ keep_listening_'
               /\ websocket_ = "connected"
                    => last_sent' = "listen_start_auto"]_vars
    /\ [][(ml_task.task.kind = "Connect" /\ oac_result = "false"
             /\ ml_task.step \in {"alert", "ret"})
            => /\ UNCHANGED <<last_sent, keep_listening_>>
               /\ ~(sds'["main"].pc = "call"
                      /\ sds'["main"].state = "listening")
               /\ device_state_' = "listening"
                    => device_state_ = "listening"]_vars

\* C13 witness: the task of a toggle in Idle opened the session, set the
\* flag, sent start-listening (auto stop) and is calling
\* SetDeviceState(Listening).
C13_Witness ==
    /\ ml_task.task.kind = "Connect"
    /\ ml_task.step = "ret"
    /\ oac_result = "true"
    /\ keep_listening_
    /\ last_sent = "listen_start_auto"
    /\ sds["main"].pc = "call"
    /\ sds["main"].state = "listening"
    /\ device_state_ = "connecting"

\* C5 as stated: while aborted_ is set no decode job of server audio gives
\* PCM to codec->OutputData with the output enabled.
C5_NoOutputAfterAbort ==
    [][(bg_pc = "output" /\ bg_pc' = "idle" /\ bg_job = "server"
          /\ output_enabled)
         => ~aborted_]_vars

\* C21: an OpenAudioChannel() that fails, by a failed Connect or by a hello
\* that does not arrive within the wait, records an error and returns
\* false, and IsAudioChannelOpened() is false from then on until the next
\* OpenAudioChannel(); the task that called it calls
\* SetDeviceState(Idle) and Alert, sends nothing, and when it returns the
\* alert is on the display, its sound is queued and the device is Idle.
C21_OpenFails ==
    /\ [][(AtOpening("open") \/ AtOpening("hello"))
             /\ ml_task' # ml_task /\ oac_result' = "false"
            => /\ error_occurred_'
               /\ websocket_' = IF AtOpening("open") THEN "created"
                                ELSE websocket_
               /\ sds'["main"].pc = "call"
               /\ sds'["main"].state = "idle"
               /\ ml_task'.step = "alert"
               /\ last_sent' \in {last_sent, "none"}]_vars
    /\ [](oac_result = "false"
            => /\ error_occurred_
               /\ ~IsAudioChannelOpened)
    /\ []((ml_pc = "run" /\ ml_task.task.kind \in OpenKinds
             /\ oac_result = "false" /\ ml_task.step = "ret"
             /\ Ready("main"))
            => /\ device_state_ = "idle"
               /\ display_status = "ERROR"
               /\ display_emotion = "sad"
               /\ display_message = "error"
               /\ audio_decode_queue_ # <<>>
               /\ audio_decode_queue_[Len(audio_decode_queue_)] = "sound")

\* C21 witness: the hello did not arrive: the session-open task is about
\* to return with the error recorded, the socket still connected, the
\* alert shown and the device back in Idle after Connecting.
C21_Witness ==
    /\ ml_pc = "run"
    /\ ml_task = [task |-> Task("Connect"), step |-> "ret"]
    /\ Ready("main")
    /\ oac_result = "false"
    /\ error_occurred_
    /\ websocket_ = "connected"
    /\ device_state_ = "idle"
    /\ display_status = "ERROR"

\* C34: the step that ends the entry to Listening sends the IoT states
\* exactly when they differ from last_iot_states_, and records them; the
\* opened callback clears the record, and nothing else changes it; so the
\* first entry to Listening after an open sends the states and a later
\* entry in the same session does not.
C34_IotStatesOnListening ==
    /\ [][\A t \in Threads :
            (sds[t].pc = "post" /\ sds'[t].pc # "post")
              => IF ThingStatesJson # last_iot_states_
                 THEN /\ last_iot_states_' = ThingStatesJson
                      /\ websocket_ = "connected"
                           => last_sent' = "iot_states"
                 ELSE UNCHANGED <<last_iot_states_, last_sent>>]_vars
    /\ [][(AtOpening("hello") /\ ml_task'.step = "descriptors")
            => last_iot_states_' = ""]_vars
    /\ [][last_iot_states_' # last_iot_states_
            => \/ AtOpening("hello") /\ last_iot_states_' = ""
               \/ /\ \E t \in Threads : sds[t].pc = "post"
                  /\ last_iot_states_ = ""]_vars
    /\ [][(last_sent' = "iot_states" /\ last_sent # "iot_states")
            => last_iot_states_ = "" /\ "" # ThingStatesJson]_vars

\* C34 witness: after a tts/stop the device is Listening again in the same
\* session, and the last message sent is the start-listening message, not
\* the IoT states.
C34_Witness ==
    /\ device_state_ = "listening"
    /\ ml_task.task.kind = "TtsStop"
    /\ sds["main"] = NoCall
    /\ audio_processor_running
    /\ websocket_ = "connected"
    /\ last_iot_states_ = ThingStatesJson
    /\ last_sent = "listen_start_auto"

\* C35: the session-open task of ToggleChatState() starts (and so calls
\* OpenAudioChannel()) only when the device is Idle, and its
\* OpenAudioChannel() never deletes a connected session.
C35_ConnectOnlyFromIdle ==
    /\ [][(Starting("Connect") /\ ml_task'.task.kind = "Connect")
            => device_state_ = "idle"]_vars
    /\ [][(ml_task.task.kind = "Connect" /\ AtOpening("open")
             /\ ml_task'.step # "open")
            => websocket_ # "connected"]_vars

-----------------------------------------------------------------------------
(* SpecToggle: the button in every device state. The conversation of Spec, *)
(* and two more starting points: Start() before the protocol object        *)
(* exists, and the activation code on display while the version-check task *)
(* sleeps between two looks at the device state.                           *)

\* No thread is inside a call, nothing is queued anywhere.
InitQuiet ==
    /\ ml_pc = "wait"
    /\ ml_bits = {}
    /\ ml_tasks = <<>>
    /\ ml_task = NoTask
    /\ sds = [t \in Threads |-> NoCall]
    /\ snd = [t \in Threads |-> "none"]
    /\ bg_queue = <<>>
    /\ bg_pc = "idle"
    /\ bg_job = "none"
    /\ bg_alive = TRUE
    /\ retry_count = 0
    /\ vc_digits = 0
    /\ consecutive_failures = 0
    /\ next_id = 0
    /\ last_run = 0
    /\ sched_notify = {}
    /\ env_events = 0
    /\ last_sent = "none"
    /\ wwi_pc = "idle"
    /\ keep_listening_ = FALSE
    /\ aborted_ = FALSE
    /\ audio_decode_queue_ = <<>>
    /\ main_tasks_ = <<>>
    /\ event_group_ = {}
    /\ clock_ticks_ = 0
    /\ last_iot_states_ = ""
    /\ audio_processor_running = FALSE
    /\ output_enabled = TRUE
    /\ pcm_written = "none"
    /\ power_save_mode = TRUE

\* Start() has shown LOADING_PROTOCOL: the main loop runs, there is no
\* protocol object, no version-check task and no clock timer yet.
InitStarting ==
    /\ current_version_ = <<"1", ".", "0">>
    /\ InitOta
    /\ InitUpgradeIdle
    /\ InitWs
    /\ InitQuiet
    /\ device_state_ = "starting"
    /\ opus_decode_sample_rate_ = 24000
    /\ opus_decoder_ = "fresh"
    /\ display_status = "LOADING_PROTOCOL"
    /\ display_emotion = "neutral"
    /\ display_message = ""
    /\ display_notification = "none"
    /\ led_state = "starting"
    /\ vc_pc = "poll"
    /\ vc_i = 0
    /\ protocol_ = FALSE
    /\ thing_invoked = "none"
    /\ timed_out = FALSE
    /\ frames_encoded = 0
    /\ frames_sent = <<>>

\* A state of SpecCheck: the poll returned an activation code, the alert and
\* the digits were played, the version-check task is in its wait loop.
InitActivating ==
    /\ current_version_ = <<"1", ".", "0">>
    /\ firmware_version_ = <<"1", ".", "0">>
    /\ has_new_version_ = FALSE
    /\ has_activation_code_ = TRUE
    /\ image_marked_valid = TRUE
    /\ InitUpgradeIdle
    /\ InitWs
    /\ InitQuiet
    /\ device_state_ = "activating"
    /\ opus_decode_sample_rate_ = 16000
    /\ opus_decoder_ = "used"
    /\ display_status = "ACTIVATION"
    /\ display_emotion = "happy"
    /\ display_message = "activation"
    /\ display_notification = "VERSION"
    /\ led_state = "activating"
    /\ vc_pc = "act_loop"
    /\ vc_i = 1
    /\ protocol_ = TRUE
    /\ thing_invoked = "none"
    /\ timed_out = FALSE
    /\ frames_encoded = 0
    /\ frames_sent = <<>>

InitToggle == Init \/ InitStarting \/ InitActivating

NextToggle ==
    \/ Next
    \/ \E state \in {"starting", "activating", "connecting"} :
         ToggleChatStateIn(state)
    \/ StartLoadsProtocol

SpecToggle == InitToggle /\ [][NextToggle]_vars

\* What a ToggleChatState() that schedules a task or does nothing leaves
\* alone: everything but the task list, its event bit and the count of
\* button presses.
ToggleLeaves ==
    UNCHANGED <<otaVars, upVars, wsVars, device_state_, clock_ticks_,
                keep_listening_, aborted_, audio_decode_queue_,
                opus_decode_sample_rate_, opus_decoder_, last_iot_states_,
                boardVars, mlVars, callVars, bgVars, vcVars, schedVars,
                talkVars>>

\* C14: ToggleChatState() outside Idle. In Activating it calls
\* SetDeviceState(Idle) and does nothing else. Without a protocol object
\* (state not Activating) it changes nothing and schedules nothing. In
\* Speaking it schedules AbortSpeaking(None) and leaves the device state
\* alone; in Listening it schedules CloseAudioChannel; in every other state
\* it changes nothing and schedules nothing.
C14_ToggleOutsideIdle ==
    [][\A state \in {"starting", "activating", "connecting", "speaking",
                     "listening", "upgrading"} :
         ToggleChatStateIn(state)
           => CASE state = "activating" ->
                     /\ sds' = [sds EXCEPT !["user"] =
                                  [pc |-> "call", state |-> "idle",
                                   prev |-> "-", q0 |-> FALSE]]
                     /\ UNCHANGED <<otaVars, upVars, wsVars, appVars,
                                    boardVars, mlVars, snd, bgVars, vcVars,
                                    schedVars, talkVars>>
                [] state # "activating" /\ ~protocol_ ->
                     /\ ToggleLeaves
                     /\ UNCHANGED <<main_tasks_, event_group_>>
                [] state = "speaking" /\ protocol_ ->
                     /\ main_tasks_' = Append(main_tasks_, AbortTask("none"))
                     /\ event_group_' = event_group_ \cup {"SCHEDULE_EVENT"}
                     /\ ToggleLeaves
                [] state = "listening" /\ protocol_ ->
                     /\ main_tasks_' = Append(main_tasks_, Task("Close"))
                     /\ event_group_' = event_group_ \cup {"SCHEDULE_EVENT"}
                     /\ ToggleLeaves
                [] OTHER ->
                     /\ ToggleLeaves
                     /\ UNCHANGED <<main_tasks_, event_group_>>]_vars

\* C14 witness: the button was pressed in Speaking: the abort task with
\* reason None is scheduled and the device is still Speaking.
C14_Witness ==
    /\ device_state_ = "speaking"
    /\ main_tasks_ = <<AbortTask("none")>>
    /\ "SCHEDULE_EVENT" \in event_group_
    /\ Ready("user")

\* C17: the task of an inbound tts/start clears aborted_ and, when the
\* device state is Idle or Listening as the task runs, calls
\* SetDeviceState(Speaking), which writes the state; in every other state
\* the task leaves the device state alone and calls nothing. The device
\* state becomes Speaking in no other step.
C17_TtsStart ==
    /\ [][TaskTtsStart
            => /\ ~aborted_'
               /\ UNCHANGED device_state_
               /\ IF device_state_ \in {"idle", "listening"}
                  THEN /\ sds'["main"].pc = "call"
                       /\ sds'["main"].state = "speaking"
                  ELSE /\ UNCHANGED sds
                       /\ ml_task' = NoTask]_vars
    /\ [][(ml_task.task.kind = "TtsStart" /\ sds["main"].pc = "call"
             /\ sds'["main"] # sds["main"])
            => device_state_' = "speaking"]_vars
    /\ [][(device_state_' = "speaking" /\ device_state_ # "speaking")
            => /\ ml_task.task.kind = "TtsStart"
               /\ sds["main"].pc = "call"
               /\ sds["main"].state = "speaking"
               /\ device_state_ \in {"idle", "listening"}]_vars

\* C17 witness: a tts/start was handled in Listening after an abort: the
\* flag is clear again and the device speaks.
C17_Witness ==
    /\ device_state_ = "speaking"
    /\ sds["main"].prev = "listening"
    /\ ml_task.task.kind = "TtsStart"
    /\ ~aborted_
    /\ keep_listening_

-----------------------------------------------------------------------------
(* SpecListen: push to talk. The user holds and releases the talk button   *)
(* (StartListening, StopListening), the server answers, speaks and drops   *)
(* the connection. The device starts as in Spec, or after a conversation   *)
(* that the button of Spec opened and closed.                              *)

\* A state of Spec: a toggled conversation was closed again, the output was
\* switched off after the silence; keep_listening_ is still set.
InitAfterSession ==
    /\ current_version_ = <<"1", ".", "0">>
    /\ firmware_version_ = <<"1", ".", "0">>
    /\ has_new_version_ = FALSE
    /\ has_activation_code_ = FALSE
    /\ image_marked_valid = TRUE
    /\ InitUpgradeIdle
    /\ websocket_ = "null"
    /\ error_occurred_ = FALSE
    /\ hello_event = FALSE
    /\ server_sample_rate_ = 16000
    /\ oac_pc = "idle"
    /\ oac_result = "true"
    /\ opened_fired = TRUE
    /\ ws_hello_sent = FALSE
    /\ ws_server_replied = FALSE
    /\ ws_valid_hello = FALSE
    /\ closed_fired = TRUE
    /\ device_state_ = "idle"
    /\ clock_ticks_ = 1
    /\ keep_listening_ = TRUE
    /\ aborted_ = FALSE
    /\ audio_decode_queue_ = <<>>
    /\ main_tasks_ = <<>>
    /\ event_group_ = {}
    /\ opus_decode_sample_rate_ = 16000
    /\ opus_decoder_ = "fresh"
    /\ last_iot_states_ = "states"
    /\ audio_processor_running = FALSE
    /\ output_enabled = FALSE
    /\ pcm_written = "sound"
    /\ power_save_mode = TRUE
    /\ display_status = "STANDBY"
    /\ display_emotion = "neutral"
    /\ display_message = ""
    /\ display_notification = "VERSION"
    /\ led_state = "idle"
    /\ ml_pc = "wait"
    /\ ml_bits = {}
    /\ ml_tasks = <<>>
    /\ ml_task = NoTask
    /\ sds = [t \in Threads |->
                IF t = "vc" THEN [NoCall EXCEPT !.pc = "noop", !.state = "idle"]
                ELSE NoCall]
    /\ snd = [t \in Threads |-> "none"]
    /\ bg_queue = <<>>
    /\ bg_pc = "idle"
    /\ bg_job = "none"
    /\ bg_alive = TRUE
    /\ vc_pc = "ok_sound"
    /\ retry_count = 0
    /\ vc_i = 0
    /\ vc_digits = 0
    /\ consecutive_failures = 0
    /\ next_id = 0
    /\ last_run = 0
    /\ sched_notify = {}
    /\ env_events = 0
    /\ last_sent = "none"
    /\ wwi_pc = "idle"
    /\ protocol_ = TRUE
    /\ thing_invoked = "none"
    /\ timed_out = FALSE
    /\ frames_encoded = 0
    /\ frames_sent = <<>>

InitListen == Init \/ InitAfterSession

NextListen ==
    \/ MainLoopWait
    \/ MainLoopOutputAudio
    \/ MainLoopSwap
    \/ TaskReturns
    \/ TaskListenBegins
    \/ TaskListenAborts
    \/ TaskListenSends
    \/ TaskStopListenBegins
    \/ TaskStopListenSends
    \/ TaskConnectOpens
    \/ TaskConnectHello
    \/ TaskConnectDescriptors
    \/ TaskSetsAfterError
    \/ \E t \in Threads : OnNetworkErrorAlert(t)
    \/ TaskConnectTimeout
    \/ TaskNetworkErrorAlert
    \/ TaskTtsStart
    \/ TaskTtsStop
    \/ TaskTtsStopWaited
    \/ TaskChannelClosed
    \/ \E t \in Threads : SetDeviceStateBegins(t)
    \/ \E t \in Threads : SetDeviceStateWaits(t)
    \/ \E t \in Threads : SetDeviceStateEntry(t)
    \/ \E t \in Threads : SetDeviceStateListeningRest(t)
    \/ \E t \in Threads : PlaySoundSetup(t)
    \/ \E t \in Threads : PlaySoundPush(t)
    \/ BackgroundJobBegins
    \/ BackgroundJobOutputs
    \/ \E state \in {"idle", "connecting", "listening", "speaking"} :
         StartListeningIn(state)
    \/ StopListening
    \/ \E state \in {"idle", "connecting", "listening", "speaking"} :
         OnIncomingAudioIn(state)
    \/ OnIncomingTts
    \/ OnDataServerHello
    \/ OnTransportDisconnected
    \/ OnOutputReady
    \/ OnClockTimer

SpecListen == InitListen /\ [][NextListen]_vars

\* C15: StartListening() clears keep_listening_ and, in Idle or Speaking,
\* schedules one task. The task of Idle opens the session exactly when
\* IsAudioChannelOpened() is false (SetDeviceState(Connecting) first), then
\* sends start-listening in manual-stop mode and calls
\* SetDeviceState(Listening); after an open that returned false it sends
\* nothing and the device does not enter Listening. The task of Speaking
\* calls AbortSpeaking(None) before it sends start-listening and calls
\* SetDeviceState(Listening). The flag stays clear, and a tts/stop handled
\* in Speaking with the flag clear calls SetDeviceState(Idle).
C15_StartListening ==
    /\ [][\A state \in {"idle", "speaking"} :
            StartListeningIn(state)
              => /\ ~keep_listening_'
                 /\ main_tasks_' =
                      Append(main_tasks_,
                             Task(IF state = "idle" THEN "Listen"
                                  ELSE "ListenAbort"))
                 /\ UNCHANGED <<device_state_, sds, wsVars, last_sent>>]_vars
    /\ [][\A state \in {"connecting", "listening"} :
            StartListeningIn(state)
              => /\ ~keep_listening_'
                 /\ UNCHANGED <<main_tasks_, device_state_, sds, wsVars,
                                last_sent>>]_vars
    /\ [][(Starting("Listen") /\ ml_task' # ml_task)
            => IF IsAudioChannelOpened
               THEN /\ ml_task'.step = "send"
                    /\ UNCHANGED <<wsVars, sds, device_state_>>
               ELSE /\ ml_task'.step = "open"
                    /\ sds'["main"].pc = "call"
                    /\ sds'["main"].state = "connecting"
                    /\ UNCHANGED <<wsVars, last_sent>>]_vars
    /\ [](ml_task.task.kind = "Listen"
            => /\ ml_task.step \in {"descriptors", "send", "listening"}
                    => oac_result = "true"
               /\ ml_task.step = "alert" => oac_result = "false")
    /\ [][(ml_task.task.kind \in {"Listen", "ListenAbort"}
             /\ sds'["main"] # sds["main"]
             /\ sds'["main"].pc = "call"
             /\ sds'["main"].state = "listening")
            => /\ ml_task.step \in {"send", "listening"}
               /\ websocket_ = "connected"
                    => last_sent' = "listen_start_manual"]_vars
    /\ [][(ml_task.task.kind = "Listen" /\ oac_result = "false"
             /\ ml_task.step \in {"alert", "ret"})
            => /\ UNCHANGED last_sent
               /\ ~(sds'["main"].pc = "call"
                      /\ sds'["main"].state = "listening")
               /\ device_state_' = "listening"
                    => device_state_ = "listening"]_vars
    /\ [][(Starting("ListenAbort") /\ ml_task' # ml_task)
            => /\ aborted_'
               /\ websocket_ = "connected" => last_sent' = "abort"
               /\ ml_task'.step = "send"
               /\ ~(sds'["main"].pc = "call"
                      /\ sds'["main"].state = "listening")]_vars
    /\ [][keep_listening_' => keep_listening_]_vars
    /\ [][(ml_task.task.kind = "TtsStop" /\ ml_task.step = "wait"
             /\ ml_task' # ml_task /\ ~keep_listening_)
            => /\ sds'["main"].pc = "call"
               /\ sds'["main"].state = "idle"
               /\ UNCHANGED last_sent]_vars

\* C15 witness: StartListening() was called in Speaking:
\* its task has aborted the speech, sent start-listening (manual stop) and
\* is calling SetDeviceState(Listening); the flag is clear.
C15_Witness ==
    /\ ml_task.task.kind = "ListenAbort"
    /\ ml_task.step = "ret"
    /\ aborted_
    /\ ~keep_listening_
    /\ last_sent = "listen_start_manual"
    /\ sds["main"].pc = "call"
    /\ sds["main"].state = "listening"
    /\ device_state_ = "speaking"

\* C19: a binary frame from the server is appended to the decode queue
\* exactly when the device state is Speaking as the frame arrives; a frame
\* that arrives in any other state leaves the queue as it was, and no step
\* in another state puts a frame of the server into the queue.
C19_IncomingAudio ==
    /\ [][\A state \in {"idle", "connecting", "listening", "speaking"} :
            OnIncomingAudioIn(state)
              => IF state = "speaking"
                 THEN audio_decode_queue_' =
                        Append(audio_decode_queue_, "server")
                 ELSE UNCHANGED audio_decode_queue_]_vars
    /\ [][(Len(audio_decode_queue_') > Len(audio_decode_queue_)
             /\ audio_decode_queue_'[Len(audio_decode_queue_')] = "server")
            => device_state_ = "speaking"]_vars

\* C19 witness: a frame that arrived in Speaking is in the queue, after a
\* frame that arrived in Listening was dropped.
C19_Witness ==
    /\ device_state_ = "speaking"
    /\ audio_decode_queue_ = <<"server">>
    /\ env_events = MaxEvents

\* C26: CanEnterSleepMode() is true exactly when the device is Idle and no
\* session is open (no protocol object, or IsAudioChannelOpened() false); in
\* Idle after StopListening, with the session that StartListening opened
\* still open, it is false.
C26_CanEnterSleepMode ==
    /\ CanEnterSleepMode
         <=> /\ device_state_ = "idle"
             /\ ~protocol_ \/ websocket_ # "connected" \/ error_occurred_
                  \/ IsTimeout
    /\ (/\ device_state_ = "idle"
        /\ last_sent = "listen_stop"
        /\ websocket_ = "connected"
        /\ ~error_occurred_)
         => ~CanEnterSleepMode

\* C26 witness: StopListening() has sent its message and set Idle, the
\* session is still open and the main loop is free again.
C26_Witness ==
    /\ device_state_ = "idle"
    /\ last_sent = "listen_stop"
    /\ IsAudioChannelOpened
    /\ ml_task = NoTask
    /\ Ready("main")
    /\ ~CanEnterSleepMode

-----------------------------------------------------------------------------
(* SpecWake: the conversation of Spec, started and steered by a board that *)
(* calls WakeWordInvoke() instead of ToggleChatState().                    *)

NextWake ==
    \/ MainLoopWait
    \/ MainLoopOutputAudio
    \/ MainLoopSwap
    \/ TaskReturns
    \/ TaskConnectBegins
    \/ TaskConnectOpens
    \/ TaskConnectHello
    \/ TaskConnectDescriptors
    \/ TaskConnectStart
    \/ TaskSetsAfterError
    \/ \E t \in Threads : OnNetworkErrorAlert(t)
    \/ TaskConnectTimeout
    \/ TaskNetworkErrorAlert
    \/ TaskTtsStart
    \/ TaskTtsStop
    \/ TaskTtsStopWaited
    \/ TaskAbortSpeaking
    \/ TaskCloseAudioChannel
    \/ TaskChannelClosed
    \/ \E t \in Threads : SetDeviceStateBegins(t)
    \/ \E t \in Threads : SetDeviceStateWaits(t)
    \/ \E t \in Threads : SetDeviceStateEntry(t)
    \/ \E t \in Threads : SetDeviceStateListeningRest(t)
    \/ \E t \in Threads : PlaySoundSetup(t)
    \/ \E t \in Threads : PlaySoundPush(t)
    \/ BackgroundJobBegins
    \/ BackgroundJobOutputs
    \/ OnIncomingAudio
    \/ OnIncomingTts
    \/ OnDataServerHello
    \/ OnTransportDisconnected
    \/ OnOutputReady
    \/ \E state \in {"idle", "connecting", "listening", "speaking"} :
         WakeWordInvokeIn(state)
    \/ WakeWordInvokeNotifies
    \/ TaskWakeWordDetected

SpecWake == Init /\ [][NextWake]_vars

\* C16 as stated: the wake-word-detected message of WakeWordInvoke() goes
\* out only over a session that OpenAudioChannel() opened successfully:
\* whenever the task sends it over the connected WebSocket, the last
\* OpenAudioChannel() has returned true.
C16_WakeWordOnlyAfterOpen ==
    [][(Starting("Wake") /\ ml_tasks' # ml_tasks /\ websocket_ = "connected"
          /\ last_sent' = "wake_word_detected")
         => oac_result = "true"]_vars

\* C22 as stated: while IsAudioChannelOpened() is false a SendText
\* transmits nothing and records no error: outside OpenAudioChannel(), a
\* step taken with the channel not open puts no text on the wire and does
\* not set error_occurred_.
C22_SendsNeedOpenChannel ==
    [][(~IsAudioChannelOpened /\ oac_pc = "idle" /\ ~AtOpening("open"))
         => /\ last_sent' \in {last_sent, "none"}
            /\ error_occurred_' => error_occurred_]_vars

-----------------------------------------------------------------------------
(* SpecLive: the conversation of Spec under fair scheduling. The main loop *)
(* and the background task are FreeRTOS tasks that run whenever they can   *)
(* take a step; the server, the user and the codec are not obliged to do   *)
(* anything.                                                               *)

\* A step of the main loop task, inside or outside a scheduled task.
MainThread ==
    \/ MainLoopWait
    \/ MainLoopOutputAudio
    \/ MainLoopSwap
    \/ TaskReturns
    \/ TaskConnectBegins
    \/ TaskConnectOpens
    \/ TaskConnectHello
    \/ TaskConnectDescriptors
    \/ TaskConnectStart
    \/ TaskSetsAfterError
    \/ OnNetworkErrorAlert("main")
    \/ TaskConnectTimeout
    \/ TaskNetworkErrorAlert
    \/ TaskTtsStart
    \/ TaskTtsStop
    \/ TaskTtsStopWaited
    \/ TaskAbortSpeaking
    \/ TaskCloseAudioChannel
    \/ TaskChannelClosed
    \/ SetDeviceStateBegins("main")
    \/ SetDeviceStateWaits("main")
    \/ SetDeviceStateEntry("main")
    \/ SetDeviceStateListeningRest("main")
    \/ PlaySoundSetup("main")
    \/ PlaySoundPush("main")

\* A step of the background task.
BackgroundThread == BackgroundJobBegins \/ BackgroundJobOutputs

\* Spec without the clock timer, which takes no part in a conversation.
NextLive ==
    \/ MainThread
    \/ BackgroundThread
    \/ \E state \in {"idle", "speaking", "listening"} : ToggleChatStateIn(state)
    \/ OnIncomingAudio
    \/ OnIncomingTts
    \/ OnDataServerHello
    \/ OnTransportDisconnected
    \/ OnOutputReady

SpecLive ==
    /\ Init
    /\ [][NextLive]_vars
    /\ WF_vars(MainThread)
    /\ WF_vars(BackgroundThread)

\* What a task that only ends leaves alone: everything but the main loop's
\* position in its batch.
TaskOnlyEnds ==
    /\ ml_task' = NoTask
    /\ UNCHANGED <<otaVars, upVars, wsVars, appVars, boardVars, ml_bits,
                   callVars, bgVars, vcVars, schedVars, envVars, talkVars>>

\* C18: the task of an inbound tts/stop. Run in a state other than
\* Speaking it changes nothing. Run in Speaking it waits until the
\* background task has no work left; then, with keep_listening_ set, it
\* sends start-listening in auto-stop mode (over a connected socket the
\* message goes out) before it calls SetDeviceState(Listening), and the
\* device enters Listening; with the flag clear it sends nothing, calls
\* SetDeviceState(Idle), and the device enters Idle.
C18_TtsStop ==
    /\ [][TaskTtsStop
            => IF device_state_ = "speaking"
               THEN /\ ml_task'.step = "wait"
                    /\ UNCHANGED <<wsVars, appVars, boardVars, callVars,
                                   bgVars, talkVars>>
               ELSE TaskOnlyEnds]_vars
    /\ [][(ml_task.task.kind = "TtsStop" /\ ml_task.step = "wait"
             /\ ml_task' # ml_task)
            => /\ BgIdle
               /\ IF keep_listening_
                  THEN /\ websocket_ = "connected"
                            => last_sent' = "listen_start_auto"
                       /\ \/ /\ sds'["main"].pc = "call"
                             /\ sds'["main"].state = "listening"
                          \/ /\ ml_task'.step = "listening"
                             /\ websocket_ # "connected"
                  ELSE /\ sds'["main"].pc = "call"
                       /\ sds'["main"].state = "idle"
                       /\ UNCHANGED <<wsVars, last_sent>>]_vars
    /\ At("TtsStop", "wait")
          ~> /\ ml_task.task.kind = "TtsStop"
             /\ device_state_ = IF keep_listening_ THEN "listening"
                                ELSE "idle"

\* C18 witness: the tts/stop task waited, sent start-listening (auto stop)
\* and made the device listen again.
C18_Witness ==
    /\ ml_task.task.kind = "TtsStop"
    /\ ml_task.step = "ret"
    /\ keep_listening_
    /\ last_sent = "listen_start_auto"
    /\ device_state_ = "listening"
    /\ sds["main"].prev = "speaking"

\* A task of this kind is waiting in main_tasks_ or in the batch the main
\* loop is running.
Pending(kind) ==
    \/ \E i \in DOMAIN main_tasks_ : main_tasks_[i].kind = kind
    \/ \E i \in DOMAIN ml_tasks : ml_tasks[i].kind = kind

\* The audio-channel-closed callback has run: its task is the newest of
\* main_tasks_.
ClosedCallbackRan ==
    /\ main_tasks_ # <<>>
    /\ main_tasks_[Len(main_tasks_)].kind = "Closed"

\* C20 as stated: CloseAudioChannel() on a connected session, and a
\* connection the transport drops, run the audio-channel-closed callback
\* (power saving on, the task that sets Idle scheduled); once the callback
\* has run the device comes to be Idle with power saving on; and after
\* ToggleChatState() in Listening, whose close task is then pending, the
\* device comes to be Idle.
C20_ClosedLeadsToIdle ==
    /\ [][((TaskCloseAudioChannel /\ websocket_ = "connected")
             \/ OnTransportDisconnected)
            => /\ power_save_mode'
               /\ main_tasks_' = Append(main_tasks_, Task("Closed"))
               /\ "SCHEDULE_EVENT" \in event_group_'
               /\ websocket_' # "connected"]_vars
    /\ ClosedCallbackRan ~> (device_state_ = "idle" /\ power_save_mode)
    /\ Pending("Close") ~> device_state_ = "idle"

\* C31: when the task of the audio-channel-closed callback has set Idle and
\* returns, no frame of the server is left in the decode queue.
C31_QueueEmptyAfterTeardown ==
    [][(/\ ml_task.task.kind = "Closed"
        /\ ml_task'.task.kind # "Closed"
        /\ device_state_' = "idle")
         => \A i \in DOMAIN audio_decode_queue_' :
               audio_decode_queue_'[i] # "server"]_vars

-----------------------------------------------------------------------------
(* SpecJson: the conversation of SpecLive, without its fairness, with a    *)
(* server that also sends stt, llm, tts/sentence_start and iot messages.   *)

NextJson ==
    \/ NextLive
    \/ OnIncomingJsonDisplay
    \/ TaskDisplay
    \/ OnIncomingJsonIot

SpecJson == Init /\ [][NextJson]_vars

\* The receive thread hands an inbound JSON message over.
OnIncomingJson ==
    \/ OnIncomingTts
    \/ OnIncomingJsonDisplay
    \/ OnIncomingJsonIot

\* C29: the receive thread only schedules: its step leaves the device
\* state, the abort flag, the display and the things alone; a thing is
\* invoked, and the display or the device state changed, only while the
\* main loop is running its tasks.
C29_JsonEffectsOnMainLoop ==
    /\ [][OnIncomingJson
            => UNCHANGED <<device_state_, aborted_, display_status,
                           display_emotion, display_message, sds,
                           thing_invoked>>]_vars
    /\ [][(\/ thing_invoked' # thing_invoked
           \/ device_state_' # device_state_
           \/ display_emotion' # display_emotion
           \/ display_message' # display_message)
            => ml_pc = "run"]_vars

-----------------------------------------------------------------------------
(* SpecMalformed: the conversation of SpecJson with a server that also     *)
(* sends text messages that are not well formed.                           *)

NextMalformed ==
    \/ NextJson
    \/ \E kind \in MalformedKinds : OnDataMalformed(kind)

SpecMalformed == Init /\ [][NextMalformed]_vars

\* C32: a message that is not well formed leaves the device state, the
\* session and the task list alone and the device running, so that later
\* messages are still handled.
C32_MalformedDropped ==
    [][(\E kind \in MalformedKinds : OnDataMalformed(kind))
         => /\ UNCHANGED <<device_state_, wsVars, main_tasks_, sds,
                           aborted_, audio_decode_queue_>>
            /\ ~rebooted']_vars

-----------------------------------------------------------------------------
(* SpecCapture: the user opens a session by the button and closes it       *)
(* again; while the device is Listening the audio processor hands frames   *)
(* to the background task, which encodes them.                             *)

NextCapture ==
    \/ \E t \in Threads : SetDeviceStateBegins(t)
    \/ \E t \in Threads : SetDeviceStateWaits(t)
    \/ \E t \in Threads : SetDeviceStateEntry(t)
    \/ \E t \in Threads : SetDeviceStateListeningRest(t)
    \/ \E t \in Threads : PlaySoundSetup(t)
    \/ \E t \in Threads : PlaySoundPush(t)
    \/ MainLoopWait
    \/ MainLoopInputAudio
    \/ MainLoopOutputAudio
    \/ MainLoopSwap
    \/ TaskReturns
    \/ TaskConnectBegins
    \/ TaskConnectOpens
    \/ TaskConnectHello
    \/ TaskConnectDescriptors
    \/ TaskConnectStart
    \/ TaskConnectTimeout
    \/ TaskNetworkErrorAlert
    \/ TaskCloseAudioChannel
    \/ TaskChannelClosed
    \/ TaskSendAudio
    \/ BackgroundJobBegins
    \/ BackgroundJobOutputs
    \/ BackgroundJobEncodes
    \/ AudioProcessorOutput
    \/ \E state \in {"idle", "listening"} : ToggleChatStateIn(state)
    \/ OnDataServerHello
    \/ OnInputReady
    \/ OnOutputReady

SpecCapture == Init /\ [][NextCapture]_vars

\* C33: the step of the background task that encodes a frame sends
\* nothing and appends the frame's task to main_tasks_; a frame is sent
\* only by the main loop running that task; the frames are sent in the
\* order of their encoding.
C33_WorkerNeverSends ==
    /\ [][frames_encoded' # frames_encoded
            => /\ UNCHANGED <<frames_sent, last_sent, wsVars>>
               /\ frames_encoded' = frames_encoded + 1
               /\ main_tasks_' = Append(main_tasks_,
                                        SendAudioTask(frames_encoded'))
               /\ "SCHEDULE_EVENT" \in event_group_']_vars
    /\ [][frames_sent' # frames_sent
            => /\ Starting("AudioFrame")
               /\ frames_sent' = Append(frames_sent, Head(ml_tasks).frame)
               /\ UNCHANGED bgVars]_vars
    /\ [](\A i, j \in DOMAIN frames_sent :
             i < j => frames_sent[i] < frames_sent[j])

\* C33 witness: two frames were encoded and sent, the first before the
\* second.
C33_Witness ==
    /\ frames_encoded = MaxFrames
    /\ frames_sent = <<1, 2>>

-----------------------------------------------------------------------------
(* SpecTimeout: the user opens a session by the button and the server,     *)
(* after its hello or even before it, falls silent for longer than the     *)
(* idle timeout; the main loop and the background task are scheduled       *)
(* fairly.                                                                 *)

NextTimeout ==
    \/ \E t \in Threads : SetDeviceStateBegins(t)
    \/ \E t \in Threads : SetDeviceStateWaits(t)
    \/ \E t \in Threads : SetDeviceStateEntry(t)
    \/ \E t \in Threads : SetDeviceStateListeningRest(t)
    \/ \E t \in Threads : PlaySoundSetup(t)
    \/ \E t \in Threads : PlaySoundPush(t)
    \/ MainLoopWait
    \/ MainLoopOutputAudio
    \/ MainLoopSwap
    \/ TaskReturns
    \/ TaskConnectBegins
    \/ TaskConnectOpens
    \/ TaskConnectHello
    \/ TaskConnectDescriptors
    \/ TaskConnectStart
    \/ TaskConnectTimeout
    \/ TaskNetworkErrorAlert
    \/ BackgroundJobBegins
    \/ BackgroundJobOutputs
    \/ ToggleChatStateIn("idle")
    \/ OnDataServerHello
    \/ OnOutputReady
    \/ IdleTimeoutElapses

SpecTimeout ==
    /\ Init
    /\ [][NextTimeout]_vars
    /\ WF_vars(MainThread)
    /\ WF_vars(BackgroundThread)

\* C30: once the idle timeout has passed on an open session,
\* IsAudioChannelOpened() is false, and the device comes to be Idle with
\* the task of the audio-channel-closed callback run.
C30_TimeoutClosesSession ==
    /\ [][IdleTimeoutElapses => ~IsAudioChannelOpened']_vars
    /\ (timed_out /\ device_state_ = "listening")
          ~> (device_state_ = "idle")

-----------------------------------------------------------------------------
(* SpecSched: Schedule() and MainLoop() with numbered tasks. Two threads   *)
(* hand tasks to Schedule(), a running task may hand over another one.     *)

Producers == {"user", "transport"}

MaxJobs == 4

Job(id, by) == [kind |-> "Job", id |-> id, by |-> by]

\* Schedule() by a thread, in its two steps.
ProducerPush(p) ==
    /\ p \notin sched_notify
    /\ next_id < MaxJobs
    /\ SchedulePush(Job(next_id + 1, "thread"))
    /\ next_id' = next_id + 1
    /\ sched_notify' = sched_notify \cup {p}
    /\ UNCHANGED <<otaVars, upVars, wsVars, device_state_, clock_ticks_,
                   keep_listening_, aborted_, audio_decode_queue_,
                   event_group_, opus_decode_sample_rate_, opus_decoder_,
                   last_iot_states_, boardVars, mlVars, callVars, bgVars,
                   vcVars, last_run, envVars, talkVars>>

ProducerNotify(p) ==
    /\ p \in sched_notify
    /\ ScheduleNotify
    /\ sched_notify' = sched_notify \ {p}
    /\ UNCHANGED <<otaVars, upVars, wsVars, device_state_, clock_ticks_,
                   keep_listening_, aborted_, audio_decode_queue_,
                   main_tasks_, opus_decode_sample_rate_, opus_decoder_,
                   last_iot_states_, boardVars, mlVars, callVars, bgVars,
                   vcVars, next_id, last_run, envVars, talkVars>>

\* task(): a numbered task starts, may call Schedule(), and returns.
JobBegins ==
    /\ Starting("Job")
    /\ last_run' = Head(ml_tasks).id
    /\ TaskBegins("body")
    /\ UNCHANGED <<otaVars, upVars, wsVars, appVars, boardVars, ml_bits,
                   callVars, bgVars, vcVars, next_id, sched_notify, envVars,
                   talkVars>>

JobSchedules ==
    /\ At("Job", "body")
    /\ next_id < MaxJobs
    /\ Schedule(Job(next_id + 1, "task"))
    /\ next_id' = next_id + 1
    /\ UNCHANGED <<otaVars, upVars, wsVars, device_state_, clock_ticks_,
                   keep_listening_, aborted_, audio_decode_queue_,
                   opus_decode_sample_rate_, opus_decoder_, last_iot_states_,
                   boardVars, mlVars, callVars, bgVars, vcVars, last_run,
                   sched_notify, envVars, talkVars>>

JobEnds ==
    /\ At("Job", "body")
    /\ TaskEnds(ml_tasks)
    /\ UNCHANGED <<otaVars, upVars, wsVars, appVars, boardVars, ml_bits,
                   callVars, bgVars, vcVars, schedVars, envVars, talkVars>>

InitSched ==
    /\ InitStarted
    /\ vc_pc = "off"

NextSched ==
    \/ \E p \in Producers : ProducerPush(p)
    \/ \E p \in Producers : ProducerNotify(p)
    \/ OnInputReady
    \/ OnOutputReady
    \/ MainLoopWait
    \/ MainLoopInputAudio
    \/ MainLoopOutputAudio
    \/ MainLoopSwap
    \/ JobBegins
    \/ JobSchedules
    \/ JobEnds

SpecSched == InitSched /\ [][NextSched]_vars

TaskIds(list) == {list[i].id : i \in 1..Len(list)}

\* C2: tasks run in the order they were handed to Schedule(), none skipped
\* and none twice; a swap takes the whole pending list; the batch being
\* run only loses its head, and every task handed over meanwhile stays in
\* main_tasks_, behind the whole batch, until a later swap.
C2_FifoDrainCycles ==
    [][/\ last_run' # last_run => last_run' = last_run + 1
       /\ (ml_pc = "sched" /\ ml_pc' # "sched")
            => (ml_tasks' = main_tasks_ /\ main_tasks_' = <<>>)
       /\ (ml_pc = "run" /\ ml_tasks' # ml_tasks)
            => (ml_tasks # <<>> /\ ml_tasks' = Tail(ml_tasks))
       /\ \A a \in TaskIds(ml_tasks) \cup {last_run},
             b \in TaskIds(main_tasks_) : a < b]_vars

\* C2 witness: a task handed over by a running task runs in a later batch
\* while another task is already pending for the next one.
C2_Witness ==
    /\ ml_task.task.kind = "Job"
    /\ ml_task.task.by = "task"
    /\ main_tasks_ # <<>>
    /\ last_run >= 3

\* C12: a wake takes the three bits and clears them together; after it
\* InputAudio runs at most once (only when its bit was taken), then
\* OutputAudio at most once (only when its bit was taken), then the tasks,
\* none whose bit was taken is skipped and nothing of the three runs again
\* before the next wait; a ready callback sets its bit and leaves the task
\* list, the decode queue and the main loop alone.
C12_OneWakeCycle ==
    [][/\ (ml_pc = "wait" /\ ml_pc' # "wait")
            => (ml_bits' = event_group_ /\ event_group_' = {})
       /\ ml_pc' # ml_pc =>
            /\ <<ml_pc, ml_pc'>> \in
                  {<<"wait", "input">>, <<"wait", "output">>,
                   <<"wait", "sched">>, <<"input", "output">>,
                   <<"input", "sched">>, <<"input", "wait">>,
                   <<"output", "sched">>, <<"output", "wait">>,
                   <<"sched", "run">>, <<"sched", "wait">>,
                   <<"run", "wait">>}
            /\ ml_pc' = "input" => "AUDIO_INPUT_READY_EVENT" \in ml_bits'
            /\ ml_pc' = "output" => "AUDIO_OUTPUT_READY_EVENT" \in ml_bits'
            /\ ml_pc' = "sched" => "SCHEDULE_EVENT" \in ml_bits'
            /\ ml_pc' = "wait" =>
                  ml_bits \cap {"AUDIO_INPUT_READY_EVENT",
                                "AUDIO_OUTPUT_READY_EVENT",
                                "SCHEDULE_EVENT"}
                    \subseteq (CASE ml_pc = "input" ->
                                      {"AUDIO_INPUT_READY_EVENT"}
                                 [] ml_pc = "output" ->
                                      {"AUDIO_INPUT_READY_EVENT",
                                       "AUDIO_OUTPUT_READY_EVENT"}
                                 [] OTHER -> ml_bits)
       /\ (event_group_' \ event_group_)
             \cap {"AUDIO_INPUT_READY_EVENT", "AUDIO_OUTPUT_READY_EVENT"} # {}
            => UNCHANGED <<main_tasks_, audio_decode_queue_, mlVars, bgVars,
                           device_state_>>]_vars

\* C12 witness: a wake took all three bits, InputAudio has run, OutputAudio
\* is next, and the input bit has been raised again meanwhile.
C12_Witness ==
    /\ ml_pc = "output"
    /\ ml_bits = WaitedBits
    /\ "AUDIO_INPUT_READY_EVENT" \in event_group_
    /\ main_tasks_ # <<>>

\* The main loop of SpecSched: MainLoop() and the tasks it runs. Every task
\* returns.
SchedMainThread ==
    \/ MainLoopWait
    \/ MainLoopInputAudio
    \/ MainLoopOutputAudio
    \/ MainLoopSwap
    \/ JobBegins
    \/ JobSchedules
    \/ JobEnds

\* SpecSched under fair scheduling: the main loop keeps running and a thread
\* inside Schedule() goes on from push_back to xEventGroupSetBits.
SpecSchedLive ==
    /\ InitSched
    /\ [][NextSched]_vars
    /\ WF_vars(SchedMainThread)
    /\ \A p \in Producers : WF_vars(ProducerNotify(p))

\* C27: every task handed to Schedule(), by a thread or by a running task,
\* is run by the main loop, and once only: the tasks start one after the
\* other in the order of their numbers, each taken from the head of the
\* batch, a running task can hand over another one while the batch is being
\* run, and again and again the task started last is the one handed over
\* last, so that no task stays behind in main_tasks_.
C27_EveryTaskRuns ==
    /\ [][last_run' # last_run
            => /\ last_run' = last_run + 1
               /\ ml_tasks # <<>>
               /\ Head(ml_tasks).id = last_run']_vars
    /\ [][(/\ Len(main_tasks_') > Len(main_tasks_)
            /\ main_tasks_'[Len(main_tasks_')].by = "task")
            => /\ At("Job", "body")
               /\ main_tasks_' = Append(main_tasks_, Job(next_id', "task"))
               /\ "SCHEDULE_EVENT" \in event_group_'
               /\ UNCHANGED <<ml_task, ml_tasks>>]_vars
    /\ []<>(last_run = next_id)

\* C27 witness: all MaxJobs tasks have run, the last one handed over by a
\* running task.
C27_Witness ==
    /\ last_run = MaxJobs
    /\ ml_task.task.kind = "Job"
    /\ ml_task.task.by = "task"
    /\ main_tasks_ = <<>>

-----------------------------------------------------------------------------
(* SpecCheck: the version-check task against a server whose polls fail or  *)
(* report a new version, an activation code, or neither. The user presses  *)
(* the button while the activation code is shown; the sounds are played;   *)
(* the upgrade task runs the download.                                     *)

InitCheck ==
    /\ InitStarted
    /\ vc_pc = "poll"

PollAnyManifest ==
    CheckNewVersionPoll(BOOLEAN, {<<"1", ".", "0">>, <<"1", ".", "1">>},
                        BOOLEAN)

NextCheck ==
    \/ PollAnyManifest
    \/ UpgradeWaitIdle
    \/ ActivationAlert
    \/ ActivationWait
    \/ ActivationDigits
    \/ ActivationLoop
    \/ VersionCheckSuccess
    \/ \E t \in Threads : SetDeviceStateBegins(t)
    \/ \E t \in Threads : SetDeviceStateWaits(t)
    \/ \E t \in Threads : SetDeviceStateEntry(t)
    \/ \E t \in Threads : PlaySoundSetup(t)
    \/ \E t \in Threads : PlaySoundPush(t)
    \/ ToggleChatStateIn("activating")
    \/ MainLoopWait
    \/ MainLoopOutputAudio
    \/ MainLoopSwap
    \/ TaskUpgradeBegins
    \/ TaskUpgradePrepares
    \/ TaskUpgradeStarts
    \/ BackgroundJobBegins
    \/ BackgroundJobOutputs
    \/ OnOutputReady
    \/ UpgradeOpen
    \/ UpgradeReadChunk
    \/ UpgradeEnd
    \/ UpgradeRestart
    \/ UpgradeTaskFailed

SpecCheck == InitCheck /\ [][NextCheck]_vars

UpgradeTaskScheduled ==
    \/ \E i \in 1..Len(main_tasks_) : main_tasks_[i].kind = "Upgrade"
    \/ \E i \in 1..Len(ml_tasks) : ml_tasks[i].kind = "Upgrade"
    \/ ml_task.task.kind = "Upgrade"

\* C6: the task has given up exactly when 10 polls in a row have failed,
\* and then no upgrade task is scheduled; retry_count is the number of
\* failed polls since the last successful one and stays within 0..10.
C6_GivesUpAtTenFailures ==
    /\ retry_count \in 0..MAX_RETRY
    /\ retry_count = consecutive_failures
    /\ (vc_pc = "gaveup") <=> (consecutive_failures = MAX_RETRY)
    /\ vc_pc = "gaveup" => ~UpgradeTaskScheduled

\* C6 witness: the task gave up after a poll had succeeded earlier (an
\* activation round) and 10 polls in a row failed after it.
C6_Witness ==
    /\ vc_pc = "gaveup"
    /\ image_marked_valid
    /\ retry_count = MAX_RETRY

\* C24: a successful poll with no newer firmware and an activation code
\* calls SetDeviceState(Activating), which makes the state Activating, and
\* then shows and plays the code; the wait that follows ends only with the
\* device Idle or after 60 turns, and it ends in the next poll, not in the
\* end of the task; the task takes its normal end only on a poll with
\* neither newer firmware nor an activation code.
C24_ActivationLoop ==
    /\ [][(vc_pc = "poll" /\ vc_pc' \notin {"poll", "gaveup"}
             /\ ~has_new_version_')
            => IF has_activation_code_'
               THEN /\ vc_pc' = "act_alert"
                    /\ sds'["vc"].pc = "call"
                    /\ sds'["vc"].state = "activating"
               ELSE vc_pc' = "ok_message"]_vars
    /\ [][(sds["vc"].pc = "call" /\ sds["vc"].state = "activating"
             /\ sds'["vc"] # sds["vc"])
            => device_state_' = "activating"]_vars
    /\ [][(vc_pc = "act_alert" /\ vc_pc' # vc_pc)
            => /\ display_status' = "ACTIVATION"
               /\ snd'["vc"] = "setup"
               /\ vc_pc' = "act_wait"]_vars
    /\ [][(vc_pc' = "act_loop" /\ vc_pc # "act_loop")
            => vc_pc = "act_digits" /\ vc_digits = 0 /\ vc_i' = 0]_vars
    /\ [][(vc_pc = "act_loop" /\ vc_pc' # "act_loop")
            => /\ vc_pc' = "poll"
               /\ device_state_ = "idle" \/ vc_i = ActivationPolls]_vars
    /\ [][(vc_pc' = "ok_message" /\ vc_pc # "ok_message")
            => /\ vc_pc = "poll"
               /\ ~has_new_version_'
               /\ ~has_activation_code_']_vars

\* C24 witness: the code is shown, the device is still Activating and the
\* 60 turns of the wait have passed: the next step of the task is the poll.
C24_Witness ==
    /\ vc_pc = "act_loop"
    /\ vc_i = ActivationPolls
    /\ has_activation_code_
    /\ device_state_ = "activating"
    /\ display_status = "ACTIVATION"
    /\ Ready("vc")

\* C28: SetDeviceState passes its wait only with no background work
\* outstanding, the entry actions of the new state come after the wait, and
\* no background job is running when they run.
C28_EntryAfterBackgroundWork ==
    /\ [][\A t \in Threads :
            /\ (sds'[t].pc = "entry" /\ sds[t].pc # "entry")
                 => sds[t].pc = "wait" /\ BgIdle
            /\ (sds[t].pc = "entry" /\ sds'[t].pc # "entry")
                 => bg_pc = "idle" /\ bg_pc' = "idle"]_vars

\* C25: the image is marked valid only by the poll that ends the version
\* check, the one whose manifest has neither newer firmware nor an
\* activation code; a poll that leads to Activating or to the upgrade leaves
\* the mark alone.
C25_MarkedValidOnLastPoll ==
    [][(image_marked_valid' # image_marked_valid)
         => /\ vc_pc = "poll"
            /\ vc_pc' = "ok_message"
            /\ ~has_new_version_'
            /\ ~has_activation_code_']_vars

\* C39 as stated: when the version-check task ends without scheduling an
\* upgrade (it gives up after MAX_RETRY failed polls, or it completes), the
\* device state is not Activating, and the device is never Activating
\* after the task has ended.
C39_NotLeftActivating ==
    /\ [][(vc_pc' = "gaveup" /\ vc_pc # "gaveup")
            => device_state_' # "activating"]_vars
    /\ [](vc_pc = "gaveup" \/ (vc_pc = "ok_sound" /\ snd["vc"] = "none")
            => device_state_ # "activating")

-----------------------------------------------------------------------------
(* SpecActivate: the first seconds after Start() with a server that hands  *)
(* out an activation code at every poll. The user presses the button while *)
(* the device is Idle; the websocket server refuses the connection or      *)
(* never answers the hello.                                                *)

PollCode ==
    CheckNewVersionPoll({TRUE}, {<<"1", ".", "0">>}, {TRUE})

NextActivate ==
    \/ PollCode
    \/ ActivationAlert
    \/ ActivationWait
    \/ ActivationDigits
    \/ ActivationLoop
    \/ \E t \in Threads : SetDeviceStateBegins(t)
    \/ \E t \in Threads : SetDeviceStateWaits(t)
    \/ \E t \in Threads : SetDeviceStateEntry(t)
    \/ \E t \in Threads : PlaySoundSetup(t)
    \/ \E t \in Threads : PlaySoundPush(t)
    \/ MainLoopWait
    \/ MainLoopOutputAudio
    \/ MainLoopSwap
    \/ TaskReturns
    \/ TaskConnectBegins
    \/ TaskConnectOpens
    \/ TaskConnectTimeout
    \/ TaskNetworkErrorAlert
    \/ BackgroundJobBegins
    \/ BackgroundJobOutputs
    \/ ToggleChatStateIn("idle")
    \/ OnOutputReady

SpecActivate == InitBoot /\ [][NextActivate]_vars

\* C38 as stated: the device state becomes Activating only from Idle or
\* from a startup state.
C38_ActivatingFromIdle ==
    [][(device_state_' = "activating" /\ device_state_ # "activating")
         => device_state_ \in {"idle", "unknown", "starting"}]_vars

-----------------------------------------------------------------------------
(* SpecNewVersion: the first poll reports newer firmware while the user    *)
(* presses the button in Idle and the server answers the hello or not; the *)
(* scenario ends where the upgrade task calls ota_.StartUpgrade().         *)

PollNewVersion ==
    CheckNewVersionPoll({TRUE}, {<<"1", ".", "1">>}, {FALSE})

NextNewVersion ==
    \/ PollNewVersion
    \/ UpgradeWaitIdle
    \/ \E t \in Threads : SetDeviceStateBegins(t)
    \/ \E t \in Threads : SetDeviceStateWaits(t)
    \/ \E t \in Threads : SetDeviceStateEntry(t)
    \/ \E t \in Threads : SetDeviceStateListeningRest(t)
    \/ \E t \in Threads : PlaySoundSetup(t)
    \/ \E t \in Threads : PlaySoundPush(t)
    \/ MainLoopWait
    \/ MainLoopOutputAudio
    \/ MainLoopSwap
    \/ TaskReturns
    \/ TaskConnectBegins
    \/ TaskConnectOpens
    \/ TaskConnectHello
    \/ TaskConnectDescriptors
    \/ TaskConnectStart
    \/ TaskConnectTimeout
    \/ TaskNetworkErrorAlert
    \/ TaskUpgradeBegins
    \/ TaskUpgradePrepares
    \/ TaskUpgradeStarts
    \/ BackgroundJobBegins
    \/ BackgroundJobOutputs
    \/ ToggleChatStateIn("idle")
    \/ OnDataServerHello
    \/ OnOutputReady

SpecNewVersion == InitCheck /\ [][NextNewVersion]_vars

\* C23 as stated: when the upgrade task calls
\* SetDeviceState(kDeviceStateUpgrading), and when that call writes the
\* state, the device state is Idle.
C23_UpgradingFromIdle ==
    /\ [][(Starting("Upgrade") /\ ml_task' # ml_task)
            => device_state_ = "idle"]_vars
    /\ [][(device_state_' = "upgrading" /\ device_state_ # "upgrading")
            => device_state_ = "idle"]_vars

-----------------------------------------------------------------------------
(* SpecUpgrade: the scenario of SpecNewVersion with the audio processor    *)
(* delivering frames whenever it is running.                               *)

NextUpgrade ==
    \/ NextNewVersion
    \/ AudioProcessorOutput
    \/ BackgroundJobEncodes
    \/ TaskSendAudio

SpecUpgrade == InitCheck /\ [][NextUpgrade]_vars

\* C37 as stated: the device leaves Upgrading for no other state, and once
\* background_task_ is deleted no job is scheduled on it and no
\* SetDeviceState call waits on it.
C37_UpgradingIsFinal ==
    /\ [][device_state_ = "upgrading" => device_state_' = "upgrading"]_vars
    /\ [][~bg_alive
            => /\ UNCHANGED bg_queue
               /\ \A t \in Threads :
                    ~(sds[t].pc = "wait" /\ sds'[t].pc # "wait")]_vars

-----------------------------------------------------------------------------
(* SpecOta: the download, from ota_.StartUpgrade() in the upgrade task on.  *)

InitOtaUpgrade ==
    /\ current_version_ = <<"1", ".", "0">>
    /\ firmware_version_ = <<"1", ".", "1">>
    /\ has_new_version_ = TRUE
    /\ has_activation_code_ = FALSE
    /\ image_marked_valid = FALSE
    /\ InitUpgradeVars
    /\ image_same_version \in BOOLEAN
    /\ up_pc = "start"
    /\ InitWs
    /\ device_state_ = "upgrading"
    /\ clock_ticks_ = 0
    /\ keep_listening_ = FALSE
    /\ aborted_ = FALSE
    /\ audio_decode_queue_ = <<>>
    /\ main_tasks_ = <<>>
    /\ event_group_ = {}
    /\ opus_decode_sample_rate_ = 16000
    /\ opus_decoder_ = "used"
    /\ last_iot_states_ = ""
    /\ audio_processor_running = FALSE
    /\ output_enabled = FALSE
    /\ pcm_written = "sound"
    /\ power_save_mode = FALSE
    /\ display_status = "OTA_UPGRADE"
    /\ display_emotion = "happy"
    /\ display_message = "NEW_VERSION"
    /\ display_notification = "none"
    /\ led_state = "upgrading"
    /\ ml_pc = "run"
    /\ ml_bits = {}
    /\ ml_tasks = <<>>
    /\ ml_task = [task |-> Task("Upgrade"), step |-> "upgrading"]
    /\ sds = [t \in Threads |-> NoCall]
    /\ snd = [t \in Threads |-> "none"]
    /\ bg_queue = <<>>
    /\ bg_pc = "idle"
    /\ bg_job = "none"
    /\ bg_alive = FALSE
    /\ vc_pc = "scheduled"
    /\ retry_count = 0
    /\ vc_i = 0
    /\ vc_digits = 0
    /\ consecutive_failures = 0
    /\ next_id = 0
    /\ last_run = 0
    /\ sched_notify = {}
    /\ env_events = 0
    /\ last_sent = "none"
    /\ wwi_pc = "idle"
    /\ protocol_ = TRUE
    /\ thing_invoked = "none"
    /\ timed_out = FALSE
    /\ frames_encoded = 0
    /\ frames_sent = <<>>

NextOta ==
    \/ UpgradeOpen
    \/ UpgradeReadChunk
    \/ UpgradeEnd
    \/ UpgradeRestart
    \/ UpgradeTaskFailed

SpecOta == InitOtaUpgrade /\ [][NextOta]_vars

\* C40 as stated: esp_ota_write is called only with a handle that
\* esp_ota_begin gave, and when the read loop ends at the end of the stream
\* every byte read was written.
C40_WriteAfterBeginAllBytes ==
    /\ ota_write_called => update_handle # 0
    /\ up_pc = "end" => ota_written = total_read

(* C9, C10: the firmware download.                                          *)

\* C9: the next-boot partition changes only after the whole body was read
\* and written and esp_ota_end succeeded; whenever Upgrade returns early the
\* boot partition is unchanged, the task then shows "upgrade failed" and
\* reboots; the upgrade task stops nowhere but in a reboot.
C9_BootOnlyAfterValidImage ==
    /\ boot_partition = "update" =>
         /\ http_remaining = 0
         /\ ota_written = content_length
         /\ ota_end_ok
    /\ up_pc = "returned" => boot_partition = "running"
    /\ (rebooted /\ boot_partition = "running") => display_status = "UPGRADE_FAILED"
    /\ ~(ENABLED NextOta) => rebooted

\* C9 witness: a failed download ended in the failure report and a reboot
\* after part of the image had been written.
C9_Witness ==
    /\ rebooted
    /\ boot_partition = "running"
    /\ display_status = "UPGRADE_FAILED"
    /\ ota_written > 0

\* C10 as stated: when the image carries the running version, esp_ota_begin
\* and esp_ota_write are never called for the download and the boot
\* partition does not change.
C10_SameVersionNothingCalled ==
    image_same_version =>
        /\ ~ota_begin_called
        /\ ~ota_write_called
        /\ ota_written = 0
        /\ boot_partition = "running"

-----------------------------------------------------------------------------------------------------------------------------------------------------
(* SpecWs: the handshake on its own, with a server that answers each       *)
(* client hello once, at any time.                                         *)

InitSpecWs ==
    /\ InitStarted
    /\ vc_pc = "off"

NextWs ==
    \/ CallerOpens
    \/ CallerGetsHello
    \/ CallerTimesOut
    \/ OnDataServerHello
    \/ TransportDrops
    \/ CallerSendsText
    \/ CallerCloses

SpecWs == InitSpecWs /\ [][NextWs]_vars

\* C4 as stated: OpenAudioChannel returns true, and the opened callback
\* fires, only on a matching server hello received on the current
\* connection after this call's client hello; with no such hello within the
\* 10 s the call returns false.
C4_TrueOnlyOnOwnHello ==
    [][(oac_pc = "wait" /\ oac_pc' = "idle"
          /\ (oac_result' = "true" \/ opened_fired'))
       => ws_valid_hello]_vars

-----------------------------------------------------------------------------------------------------------------------------------------------------
(* SpecVersion: the version comparison on its own. *)

InitVersion ==
    /\ current_version_ \in VersionStrings
    /\ InitOta
    /\ InitUpgradeIdle
    /\ InitWs
    /\ InitApplication
    /\ InitBoard
    /\ InitThreads
    /\ vc_pc = "off"

\* One poll per run: the comparison is a function of the two strings.
NextVersion == firmware_version_ = <<>> /\ OtaCheckVersion

SpecVersion == InitVersion /\ [][NextVersion]_vars

-----------------------------------------------------------------------------
(* C7, C8: the version comparison.                                         *)

\* The comparison as the claim words it, on tuples: at the first position
\* where they differ the new component is greater, or all common positions
\* are equal and the new tuple is longer.
TupleNewer(cur, new) ==
    LET m == Min(Len(cur), Len(new))
        d == {i \in 1..m : cur[i] # new[i]}
    IN  IF d = {} THEN Len(new) > Len(cur)
        ELSE \E i \in d : (\A j \in d : i <= j) /\ new[i] > cur[i]

Polled == firmware_version_ # <<>>

C7_Examples ==
    /\ IsNewVersionAvailable(<<"1", ".", "2", ".", "0">>,
                             <<"1", ".", "2", ".", "1">>) = TRUE
    /\ IsNewVersionAvailable(<<"1", ".", "1", "0", ".", "0">>,
                             <<"1", ".", "9", ".", "9">>) = FALSE

C8_Examples ==
    /\ IsNewVersionAvailable(<<"1", ".", "2">>, <<"1", ".", "2", ".", "0">>) = TRUE
    /\ IsNewVersionAvailable(<<"1", ".", "2", ".", "0">>, <<"1", ".", "2">>) = FALSE

\* C7: IsNewVersionAvailable(current, new) is the dotted-integer tuple
\* comparison (first differing component decides; on an equal common prefix
\* the longer new version wins); ("1.2.0","1.2.1") is newer and
\* ("1.10.0","1.9.9") is not.
C7_TupleCompare ==
    /\ Polled => has_new_version_ =
                   TupleNewer(ParseVersion(current_version_),
                              ParseVersion(firmware_version_))
    /\ C7_Examples

\* C7 witness: the poll compared 1.10.0 (running) with 1.9.9 (manifest).
C7_Witness ==
    /\ current_version_ = <<"1", ".", "1", "0", ".", "0">>
    /\ firmware_version_ = <<"1", ".", "9", ".", "9">>
    /\ ~has_new_version_

EqualPrefixDifferentLength ==
    LET cur == ParseVersion(current_version_)
        new == ParseVersion(firmware_version_)
        m   == Min(Len(cur), Len(new))
    IN  /\ Polled
        /\ Len(cur) # Len(new)
        /\ SubSeq(cur, 1, m) = SubSeq(new, 1, m)

\* C8 as stated: with an equal common prefix and different lengths neither
\* version is reported newer (IsNewer("1.2","1.2.0") = false and
\* IsNewer("1.2.0","1.2") = false).
C8_Original ==
    EqualPrefixDifferentLength => ~has_new_version_

\* C8 amended: with an equal common prefix and different lengths the longer
\* one is the newer: the result is true exactly when the new version has
\* more components (IsNewer("1.2","1.2.0") = true, IsNewer("1.2.0","1.2") =
\* false).
C8_LongerWins ==
    /\ EqualPrefixDifferentLength =>
         (has_new_version_ <=>
            Len(ParseVersion(firmware_version_)) > Len(ParseVersion(current_version_)))
    /\ C8_Examples

\* C8 witness: the poll compared 1.2 (running) with 1.2.0 (manifest).
C8_Witness ==
    /\ current_version_ = <<"1", ".", "2">>
    /\ firmware_version_ = <<"1", ".", "2", ".", "0">>
    /\ has_new_version_

=============================================================================
